---- MODULE Spec2Model ----
(***************************************************************************)
(* Project Gantt (Logseq plugin): the working-day calendar, the date <->   *)
(* pixel mapper, the drag/resize gesture machine of VisualEditor and the   *)
(* transport codec, modelled from the TypeScript sources.                  *)
(*                                                                         *)
(* Dates are day numbers (local calendar days, no time of day).  Day 0 is  *)
(* Monday 2024-01-29, so that the window used below crosses a month end.   *)
(***************************************************************************)
EXTENDS Integers, Sequences, FiniteSets, TLC

VARIABLES
    data,       \* the GanttData at hand (the editor's this.data / the codec's input)
    encoded,    \* a transport string (argument of decodeGanttData)
    decoded,    \* the GanttData returned by decodeGanttData
    pc,         \* position of the running scenario
    cal,        \* calendar scenario: [d1, d2, px] inputs of the pure functions
    res,        \* calendar scenario: results of the pure functions
    dragState,  \* VisualEditor.dragState
    style,      \* DOM: style.left / style.width of the rendered elements
    blocks,     \* the host's blocks: block id -> block.content
    outcome,    \* storage scenario: how the last GanttDataManager call ended
    saves,      \* slot scenario: the save calls that have not settled yet
    listeners,  \* slot scenario: the event listeners registered on the DOM
    slot        \* slot scenario: what the plugin keeps for the render slot

vars == <<data, encoded, decoded, pc, cal, res, dragState, style, blocks, outcome,
         saves, listeners, slot>>

(***************************************************************************)
(* Optional values (an absent property / undefined) are sets of at most    *)
(* one element.                                                            *)
(***************************************************************************)
None == {}
Some(v) == {v}
Get(o) == CHOOSE v \in o : TRUE
OrElse(o, d) == IF o = {} THEN d ELSE Get(o)

Max(a, b) == IF a >= b THEN a ELSE b
Min(a, b) == IF a <= b THEN a ELSE b

\* Math.round(n / d) for d > 0: floor(n / d + 1/2), halves go up.
Round(n, d) == (2 * n + d) \div (2 * d)

(***************************************************************************)
(* Dates                                                                   *)
(***************************************************************************)
\* Date.getDay(): 0 = Sunday ... 6 = Saturday; day 0 is a Monday.
getDay(d) == (d + 1) % 7

\* formatDateISO: the local year, month and day of a date, as "YYYY-MM-DD".
formatDateISO(d) ==
    IF d <= 2 THEN <<2024, 1, 29 + d>>
    ELSE IF d <= 31 THEN <<2024, 2, d - 2>>
    ELSE <<2024, 3, d - 31>>

\* parseDateISO: new Date(year, month - 1, day) of the split string.
parseDateISO(s) ==
    IF s[2] = 1 THEN s[3] - 29
    ELSE IF s[2] = 2 THEN s[3] + 2
    ELSE s[3] + 31

\* getStageEndDate: start + duration calendar days.
getStageEndDate(start, duration) == start + duration

\* the date handed back without looking at the two limits
clampDateOff(date, minDate, maxDate) == date

\* clampDate
clampDate(date, minDate, maxDate) ==
    IF date < minDate THEN minDate
    ELSE IF date > maxDate THEN maxDate
    ELSE date

(***************************************************************************)
(* Calendar policy (dateUtils)                                             *)
(***************************************************************************)
\* The calendar walks of the code have no iteration cap; the model follows
\* them up to day Horizon and reports Unreached beyond it.
Horizon == 24
Unreached == Horizon + 1

\* the include list consulted before the exclude list
isWorkingDayIncludeFirst(date, config) ==
    LET dateStr == formatDateISO(date)
        dayOfWeek == getDay(date)
    IN  IF dateStr \in config.includeDates THEN TRUE
        ELSE IF dateStr \in config.excludeDates THEN FALSE
        ELSE IF dayOfWeek \in config.excludeWeekdays THEN FALSE
        ELSE TRUE

isWorkingDay(date, config) ==
    LET dateStr == formatDateISO(date)
        dayOfWeek == getDay(date)
    IN  IF dateStr \in config.excludeDates THEN FALSE
        ELSE IF dateStr \in config.includeDates THEN TRUE
        ELSE IF dayOfWeek \in config.excludeWeekdays THEN FALSE
        ELSE TRUE

\* getWorkingDaysBetween: the loop  while (current <= end) { count++ if working }.
RECURSIVE WorkingDaysLoop(_, _, _, _)
WorkingDaysLoop(current, end, count, config) ==
    IF current <= end
    THEN WorkingDaysLoop(current + 1, end,
                         IF isWorkingDay(current, config) THEN count + 1 ELSE count,
                         config)
    ELSE count

\* the walk with  while (current < end)
getWorkingDaysBetweenExclusive(start, end, config) == WorkingDaysLoop(start, end - 1, 0, config)

getWorkingDaysBetween(start, end, config) == WorkingDaysLoop(start, end, 0, config)

\* generateWorkingDaysScale: the same walk, collecting the working dates.
RECURSIVE ScaleLoop(_, _, _, _)
ScaleLoop(current, endDate, scale, config) ==
    IF current <= endDate
    THEN ScaleLoop(current + 1, endDate,
                   IF isWorkingDay(current, config) THEN Append(scale, current) ELSE scale,
                   config)
    ELSE scale

\* a scale of every calendar date of the range
generateWorkingDaysScaleAll(startDate, endDate, config) ==
    [i \in 1..Max(0, endDate - startDate + 1) |-> startDate + i - 1]

generateWorkingDaysScale(startDate, endDate, config) == ScaleLoop(startDate, endDate, <<>>, config)

\* addWorkingDays: while (addedDays < workingDays) { current++; if working addedDays++ }.
RECURSIVE AddLoop(_, _, _, _)
AddLoop(current, addedDays, workingDays, config) ==
    IF addedDays < workingDays
    THEN IF current >= Horizon THEN Unreached
         ELSE AddLoop(current + 1,
                      IF isWorkingDay(current + 1, config) THEN addedDays + 1 ELSE addedDays,
                      workingDays, config)
    ELSE current

\* the walk that tests start itself before it moves on
addWorkingDaysFromStart(start, workingDays, config) ==
    IF workingDays <= 0 THEN start ELSE AddLoop(start - 1, 0, workingDays, config)

\* calendar days added instead of working days
addWorkingDaysCalendar(start, workingDays, config) == start + workingDays

addWorkingDays(start, workingDays, config) == AddLoop(start, 0, workingDays, config)

\* getWeekStart(date, weekStartsOn): back to the Monday (1) or Sunday (0) of the week.
getWeekStart(date, weekStartsOn) ==
    LET day == getDay(date)
        diff == IF weekStartsOn = 1
                THEN (IF day = 0 THEN -6 ELSE 1 - day)
                ELSE -day
    IN  date + diff

getWeekEnd(date, weekStartsOn) == getWeekStart(date, weekStartsOn) + 6

(***************************************************************************)
(* Timeline coordinate mapper (positionUtils)                              *)
(***************************************************************************)
\* getDatePosition: getWeekStart is called without weekStartsOn (default 1).
getDatePosition(startDate, targetDate, cellWidth, config, timeScale) ==
    IF timeScale = "week"
    THEN LET startWeek == getWeekStart(startDate, 1)
             targetWeek == getWeekStart(targetDate, 1)
             weeksDiff == (targetWeek - startWeek) \div 7
         IN  Max(0, weeksDiff) * cellWidth
    ELSE LET workingDays == getWorkingDaysBetween(startDate, targetDate, config)
         IN  Max(0, workingDays - 1) * cellWidth

\* while (!isWorkingDay(current)) current++  : the first working day from startDate on.
RECURSIVE FirstWorkingDay(_, _)
FirstWorkingDay(current, config) ==
    IF isWorkingDay(current, config) THEN current
    ELSE IF current >= Horizon THEN Unreached
    ELSE FirstWorkingDay(current + 1, config)

\* the day branch counting from startDate itself instead of the first working day
getDateFromPositionFromStart(startDate, position, cellWidth, config, timeScale) ==
    IF timeScale = "week"
    THEN LET weekIndex == Round(position, cellWidth)
             startWeek == getWeekStart(startDate, 1)
         IN  startWeek + weekIndex * 7
    ELSE LET workingDayIndex == Round(position, cellWidth)
             firstWorkingDay == FirstWorkingDay(startDate, config)
         IN  IF workingDayIndex <= 0 THEN firstWorkingDay
             ELSE addWorkingDays(startDate, workingDayIndex, config)

getDateFromPosition(startDate, position, cellWidth, config, timeScale) ==
    IF timeScale = "week"
    THEN LET weekIndex == Round(position, cellWidth)
             startWeek == getWeekStart(startDate, 1)
         IN  startWeek + weekIndex * 7
    ELSE LET workingDayIndex == Round(position, cellWidth)
             firstWorkingDay == FirstWorkingDay(startDate, config)
         IN  IF workingDayIndex <= 0 THEN firstWorkingDay
             ELSE IF firstWorkingDay = Unreached THEN Unreached
             ELSE addWorkingDays(firstWorkingDay, workingDayIndex, config)

getPositionLimits(startDate, endDate, cellWidth, config, timeScale) ==
    [minPosition |-> 0,
     maxPosition |-> getDatePosition(startDate, endDate, cellWidth, config, timeScale) + cellWidth]

snapToGrid(position, cellWidth) == Round(position, cellWidth) * cellWidth

\* the clamp without its last Math.max: the right bound wins
constrainPositionRightWins(position, elementWidth, minPosition, maxPosition) ==
    Min(maxPosition - elementWidth, Max(minPosition, position))

constrainPosition(position, elementWidth, minPosition, maxPosition) ==
    LET constrainedLeft == Max(minPosition, position)
        constrainedRight == Min(maxPosition - elementWidth, constrainedLeft)
    IN  Max(minPosition, constrainedRight)

\* the width divided down instead of rounded
getDurationFromWidthFloor(width, cellWidth) == Max(1, width \div cellWidth)

getDurationFromWidth(width, cellWidth) == Max(1, Round(width, cellWidth))

getWidthFromDuration(duration, cellWidth) == duration * cellWidth

\* GanttRenderer.getDatePosition: the renderer's own copy, which passes weekStartsOn.
RendererDatePosition(startDate, targetDate, cellWidth, config, timeScale, weekStartsOn) ==
    IF timeScale = "week"
    THEN LET startWeek == getWeekStart(startDate, weekStartsOn)
             targetWeek == getWeekStart(targetDate, weekStartsOn)
             weeksDiff == (targetWeek - startWeek) \div 7
         IN  Max(0, weeksDiff) * cellWidth
    ELSE LET workingDays == getWorkingDaysBetween(startDate, targetDate, config)
         IN  Max(0, workingDays - 1) * cellWidth

(***************************************************************************)
(* Codec (encoding): GanttData <-> transport string                        *)
(*                                                                         *)
(* Strings are modelled by how they were built: a JSON text of a value,    *)
(* the percent-encoding of a string (encodeURIComponent), its UTF-8 byte   *)
(* string (unescape(encodeURIComponent(s))), the base64 of a byte string   *)
(* (btoa), or a raw text that is none of these.                            *)
(***************************************************************************)
JsonText(v) == [k |-> "json", b |-> v]
PctText(s) == [k |-> "pct", b |-> s]
Utf8Text(s) == [k |-> "utf8", b |-> s]
B64Text(s) == [k |-> "b64", b |-> s]
\* a text that is no JSON: its first character, and whether its bytes are
\* well-formed UTF-8 without a stray '%'
RawText(first, wellFormed) == [k |-> "raw", b |-> [first |-> first, wellFormed |-> wellFormed]]
EmptyText == [k |-> "empty", b |-> [blank |-> FALSE]]
BlankText == [k |-> "empty", b |-> [blank |-> TRUE]]

\* The first character of a string.  JSON.stringify of an object starts
\* with '{', which encodeURIComponent escapes ('%7B') and UTF-8 keeps.
RECURSIVE FirstChar(_)
FirstChar(s) ==
    CASE s.k = "json" -> "{"
      [] s.k = "pct" -> IF FirstChar(s.b) \in {"{", "%", "#"} THEN "%" ELSE FirstChar(s.b)
      [] s.k = "utf8" -> FirstChar(s.b)
      [] s.k = "raw" -> s.b.first
      [] s.k = "b64" -> "e"
      [] OTHER -> ""

JSONstringify(v) == JsonText(v)
encodeURIComponent(s) == PctText(s)
unescape(s) == IF s.k = "pct" THEN Utf8Text(s.b) ELSE s
btoa(s) == B64Text(s)

\* atob: InvalidCharacterError on a string that is no base64.
atobThrows(s) == s.k # "b64"
atob(s) == s.b

\* escape: every byte above 0x7F and '%' itself become %XX.
escape(s) == IF s.k = "utf8" THEN PctText(s.b) ELSE IF s.k = "pct" THEN PctText(s) ELSE s

\* decodeURIComponent: URIError on a malformed escape sequence.
decodeURIComponentThrows(s) == s.k = "raw" /\ ~s.b.wellFormed
decodeURIComponent(s) == IF s.k = "pct" THEN s.b ELSE s

\* JSON.parse: SyntaxError on a text that is no JSON.
JSONparseThrows(s) == s.k # "json"
JSONparse(s) == s.b

\* createDefaultGanttData(): today .. today + 1 month, weekends excluded.
Today == 0
DefaultEndDate == 31
DEFAULT_EXCLUDE_WEEKDAYS == {0, 6}
createDefaultGanttData ==
    [projects |-> <<>>, sprints |-> <<>>,
     startDate |-> Today, endDate |-> DefaultEndDate,
     excludeWeekdays |-> DEFAULT_EXCLUDE_WEEKDAYS,
     includeDates |-> {}, excludeDates |-> {},
     showTodayLine |-> Some(TRUE),
     timeScale |-> None, weekStartsOn |-> None]

SeqMap(Op(_), s) == [i \in 1..Len(s) |-> Op(s[i])]

\* toSerializable: dates to strings; type is dropped; empty lists are omitted.
SerStage(stage) ==
    [id |-> stage.id, name |-> stage.name, type |-> None,
     start |-> formatDateISO(stage.start), duration |-> stage.duration,
     assignee |-> stage.assignee, color |-> stage.color]

SerMilestone(milestone) ==
    [id |-> milestone.id, name |-> milestone.name, type |-> None,
     date |-> formatDateISO(milestone.date),
     assignee |-> milestone.assignee, color |-> milestone.color]

SerProject(project) ==
    [id |-> project.id, name |-> project.name, assignee |-> project.assignee,
     stages |-> Some(SeqMap(SerStage, project.stages)),
     milestones |-> Some(SeqMap(SerMilestone, project.milestones)),
     layout |-> project.layout]

SerSprint(sprint) ==
    [id |-> sprint.id, name |-> sprint.name,
     start |-> formatDateISO(sprint.start), end |-> formatDateISO(sprint.end)]

toSerializable(d) ==
    [projects |-> Some(SeqMap(SerProject, d.projects)),
     sprints |-> Some(SeqMap(SerSprint, d.sprints)),
     startDate |-> Some(formatDateISO(d.startDate)),
     endDate |-> Some(formatDateISO(d.endDate)),
     excludeWeekdays |-> Some(d.excludeWeekdays),
     includeDates |-> IF d.includeDates # {} THEN Some(d.includeDates) ELSE None,
     excludeDates |-> IF d.excludeDates # {} THEN Some(d.excludeDates) ELSE None,
     showTodayLine |-> d.showTodayLine]

\* fromSerializable: strings to dates; type restored from name, layout and
\* the calendar lists from their defaults.  It throws (TypeError) when
\* projects, sprints, a project's stages/milestones or a date is missing.
DeStage(stage) ==
    [id |-> stage.id, name |-> stage.name,
     type |-> OrElse(stage.type, stage.name),
     start |-> parseDateISO(stage.start), duration |-> stage.duration,
     assignee |-> stage.assignee, color |-> stage.color]

DeMilestone(milestone) ==
    [id |-> milestone.id, name |-> milestone.name,
     type |-> OrElse(milestone.type, milestone.name),
     date |-> parseDateISO(milestone.date),
     assignee |-> milestone.assignee, color |-> milestone.color]

DeProject(project) ==
    [id |-> project.id, name |-> project.name, assignee |-> project.assignee,
     stages |-> SeqMap(DeStage, Get(project.stages)),
     milestones |-> SeqMap(DeMilestone, Get(project.milestones)),
     layout |-> Some(OrElse(project.layout, "inline"))]

DeSprint(sprint) ==
    [id |-> sprint.id, name |-> sprint.name,
     start |-> parseDateISO(sprint.start), end |-> parseDateISO(sprint.end)]

FromSerializableThrows(ser) ==
    \/ ser.projects = None
    \/ ser.sprints = None
    \/ ser.startDate = None
    \/ ser.endDate = None
    \/ \E i \in 1..Len(Get(ser.projects)) :
          \/ Get(ser.projects)[i].stages = None
          \/ Get(ser.projects)[i].milestones = None

\* fromSerializable with  showTodayLine: data.showTodayLine || true
fromSerializableOrTrue(ser) ==
    [projects |-> SeqMap(DeProject, Get(ser.projects)),
     sprints |-> SeqMap(DeSprint, Get(ser.sprints)),
     startDate |-> parseDateISO(Get(ser.startDate)),
     endDate |-> parseDateISO(Get(ser.endDate)),
     excludeWeekdays |-> OrElse(ser.excludeWeekdays, {}),
     includeDates |-> OrElse(ser.includeDates, {}),
     excludeDates |-> OrElse(ser.excludeDates, {}),
     showTodayLine |-> Some(TRUE),
     timeScale |-> None, weekStartsOn |-> None]

fromSerializable(ser) ==
    [projects |-> SeqMap(DeProject, Get(ser.projects)),
     sprints |-> SeqMap(DeSprint, Get(ser.sprints)),
     startDate |-> parseDateISO(Get(ser.startDate)),
     endDate |-> parseDateISO(Get(ser.endDate)),
     excludeWeekdays |-> OrElse(ser.excludeWeekdays, {}),
     includeDates |-> OrElse(ser.includeDates, {}),
     excludeDates |-> OrElse(ser.excludeDates, {}),
     showTodayLine |-> Some(OrElse(ser.showTodayLine, TRUE)),
     timeScale |-> None, weekStartsOn |-> None]

\* encodeGanttData: btoa(unescape(encodeURIComponent(JSON.stringify(...)))).
encodeGanttData(d) == btoa(unescape(encodeURIComponent(JSONstringify(toSerializable(d)))))

\* the probe looking for the '{' of an unescaped JSON text instead
IsLegacyFormatNever(bytes) == FirstChar(bytes) = "{" /\ bytes.k = "pct"

\* The format probe of decodeGanttData: decoded.startsWith('%').
IsLegacyFormat(bytes) == FirstChar(bytes) = "%"

\* decodeGanttData over a lenient fromSerializable ((data.sprints || []).map):
\* a document without sprints is no longer rejected.
decodeGanttDataLenient(enc) ==
    IF enc.k = "empty" THEN createDefaultGanttData
    ELSE IF atobThrows(enc) THEN createDefaultGanttData
    ELSE LET bytes == atob(enc)
             arg == IF IsLegacyFormat(bytes) THEN bytes ELSE escape(bytes)
         IN  IF decodeURIComponentThrows(arg) THEN createDefaultGanttData
             ELSE LET json == decodeURIComponent(arg)
                  IN  IF JSONparseThrows(json) THEN createDefaultGanttData
                      ELSE LET ser == JSONparse(json)
                               lenient == [ser EXCEPT !.sprints = Some(OrElse(ser.sprints, <<>>))]
                           IN  IF FromSerializableThrows(lenient) THEN createDefaultGanttData
                               ELSE fromSerializable(lenient)

\* decodeGanttData: everything runs inside try/catch; the catch returns the
\* default model.
decodeGanttData(enc) ==
    IF enc.k = "empty" THEN createDefaultGanttData
    ELSE IF atobThrows(enc) THEN createDefaultGanttData
    ELSE LET bytes == atob(enc)
             arg == IF IsLegacyFormat(bytes) THEN bytes ELSE escape(bytes)
         IN  IF decodeURIComponentThrows(arg) THEN createDefaultGanttData
             ELSE LET json == decodeURIComponent(arg)
                  IN  IF JSONparseThrows(json) THEN createDefaultGanttData
                      ELSE LET ser == JSONparse(json)
                           IN  IF FromSerializableThrows(ser) THEN createDefaultGanttData
                               ELSE fromSerializable(ser)

\* validateGanttData: the required fields are there.  A Date and an array
\* are truthy whatever they hold, so only a missing field fails.
validateGanttData(d) ==
    {"startDate", "endDate", "projects", "sprints"} \subseteq DOMAIN d

\* in each project only the first stage out of range is removed
sanitizeGanttDataOnce(d) ==
    LET inRange(date) == date >= d.startDate /\ date <= d.endDate
        firstOut(stages) ==
            IF \E i \in DOMAIN stages : ~inRange(stages[i].start)
            THEN CHOOSE i \in DOMAIN stages :
                    /\ ~inRange(stages[i].start)
                    /\ \A j \in 1..(i - 1) : inRange(stages[j].start)
            ELSE 0
        dropAt(stages, k) ==
            [i \in 1..(Len(stages) - 1) |-> IF i < k THEN stages[i] ELSE stages[i + 1]]
        sanitizeProject(project) ==
            [project EXCEPT
                !.stages = IF firstOut(@) = 0 THEN @ ELSE dropAt(@, firstOut(@)),
                !.milestones = SelectSeq(@, LAMBDA milestone : inRange(milestone.date))]
    IN  [d EXCEPT !.projects = SeqMap(sanitizeProject, d.projects),
                  !.sprints = SelectSeq(@, LAMBDA sprint :
                                  sprint.start >= d.startDate /\ sprint.end <= d.endDate)]

\* a stage is kept when it also ends inside the timeline
sanitizeGanttDataWholeStage(d) ==
    LET sanitizeProject(project) ==
            [project EXCEPT
                !.stages = SelectSeq(@, LAMBDA stage :
                               /\ stage.start >= d.startDate
                               /\ getStageEndDate(stage.start, stage.duration) <= d.endDate),
                !.milestones = SelectSeq(@, LAMBDA milestone :
                               milestone.date >= d.startDate /\ milestone.date <= d.endDate)]
    IN  [d EXCEPT !.projects = SeqMap(sanitizeProject, d.projects),
                  !.sprints = SelectSeq(@, LAMBDA sprint :
                                  sprint.start >= d.startDate /\ sprint.end <= d.endDate)]

\* sanitizeGanttData: projects.map with stages.filter and milestones.filter,
\* then sprints.filter; every other field is spread unchanged.
sanitizeGanttData(d) ==
    LET sanitizeProject(project) ==
            [project EXCEPT
                !.stages = SelectSeq(@, LAMBDA stage :
                               stage.start >= d.startDate /\ stage.start <= d.endDate),
                !.milestones = SelectSeq(@, LAMBDA milestone :
                               milestone.date >= d.startDate /\ milestone.date <= d.endDate)]
    IN  [d EXCEPT !.projects = SeqMap(sanitizeProject, d.projects),
                  !.sprints = SelectSeq(@, LAMBDA sprint :
                                  sprint.start >= d.startDate /\ sprint.end <= d.endDate)]

(***************************************************************************)
(* VisualEditor: the drag state after construction                         *)
(***************************************************************************)
IdleDragState ==
    [isDragging |-> FALSE, isResizing |-> FALSE,
     dragTarget |-> None, dragType |-> None, resizeType |-> None,
     dragOffset |-> 0,
     initialStageStart |-> None, initialStageDuration |-> None]

NoCal == [d1 |-> 0, d2 |-> 0, px |-> 0, n |-> 0]
NoRes == [kind |-> "none", working |-> FALSE, p1 |-> 0, p2 |-> 0, date |-> 0]
NoBlocks == [id \in {} |-> [k |-> "empty", b |-> [blank |-> FALSE]]]
NoOutcome == [op |-> "none", id |-> "", error |-> None, updateBlock |-> FALSE]
NoSaves == <<>>
NoListeners == {}
NoSlot == [rendered |-> [k |-> "empty", b |-> [blank |-> FALSE]], sameObject |-> TRUE,
           binds |-> 0, writes |-> 0, cleaned |-> FALSE]
NoStyle == [e \in {} |-> [left |-> 0, width |-> 0, boundary |-> FALSE, type |-> "stage"]]

(***************************************************************************)
(* Codec scenario: a model is encoded (current or legacy wrapping), or a   *)
(* foreign string arrives; the string is decoded; the result is encoded    *)
(* again.                                                                  *)
(***************************************************************************)
Ann == [name |-> "Ann"]

CodecStages ==
    { [id |-> "s1", name |-> "Stage", type |-> t, start |-> d, duration |-> 5,
       assignee |-> a, color |-> "FF6B6B"] :
        t \in {"Stage", "development"}, d \in {1, 4}, a \in {None, Some(Ann)} }

CodecMilestones ==
    { [id |-> "m1", name |-> "Release", type |-> "release", date |-> d,
       assignee |-> None, color |-> c] :
        d \in {2, 3}, c \in {None, Some("FFD93D")} }

SecondStage ==
    [id |-> "s2", name |-> "Deploy", type |-> "Deploy", start |-> 6, duration |-> 2,
     assignee |-> None, color |-> "4ECDC4"]

CodecStageLists ==
    {<<>>} \cup { <<st>> : st \in CodecStages } \cup { <<st, SecondStage>> : st \in CodecStages }

CodecMilestoneLists == {<<>>} \cup { <<ms>> : ms \in CodecMilestones }

CodecProjects ==
    { [id |-> "p1", name |-> "Project", assignee |-> None,
       stages |-> ss, milestones |-> ms, layout |-> Some(l)] :
        ss \in CodecStageLists, ms \in CodecMilestoneLists, l \in {"inline", "multiline"} }

CodecSprints == { <<>>, << [id |-> "sp1", name |-> "Sprint 1", start |-> 0, end |-> 6] >> }

CodecModels ==
    { [projects |-> ps, sprints |-> sp,
       startDate |-> 0, endDate |-> 13,
       excludeWeekdays |-> DEFAULT_EXCLUDE_WEEKDAYS,
       includeDates |-> inc, excludeDates |-> exc,
       showTodayLine |-> Some(tl),
       timeScale |-> ts, weekStartsOn |-> ws] :
        ps \in {<<>>} \cup { <<pr>> : pr \in CodecProjects },
        sp \in CodecSprints,
        inc \in { {}, {formatDateISO(5)} },
        exc \in { {}, {formatDateISO(2)} },
        tl \in BOOLEAN,
        ts \in {None, Some("week")},
        ws \in {None, Some(0)} }

\* JSON documents that are well-formed but lack a part fromSerializable needs.
EmptyDocument ==
    [projects |-> None, sprints |-> None, startDate |-> None, endDate |-> None,
     excludeWeekdays |-> None, includeDates |-> None, excludeDates |-> None,
     showTodayLine |-> None]

PartialDocuments ==
    { EmptyDocument,
      [EmptyDocument EXCEPT !.projects = Some(<<>>)],
      [EmptyDocument EXCEPT !.projects = Some(<<>>), !.sprints = Some(<<>>)],
      [EmptyDocument EXCEPT !.projects = Some(<<>>), !.sprints = Some(<<>>),
                            !.startDate = Some(formatDateISO(0))],
      [EmptyDocument EXCEPT !.sprints = Some(<<>>),
                            !.startDate = Some(formatDateISO(0)),
                            !.endDate = Some(formatDateISO(13))],
      [EmptyDocument EXCEPT !.projects = Some(<<>>),
                            !.startDate = Some(formatDateISO(0)),
                            !.endDate = Some(formatDateISO(13)),
                            !.excludeWeekdays = Some({0, 6})],
      [EmptyDocument EXCEPT !.projects = Some(<< [id |-> "p1", name |-> "Project",
                                                  assignee |-> None, stages |-> None,
                                                  milestones |-> None, layout |-> None] >>),
                            !.sprints = Some(<<>>),
                            !.startDate = Some(formatDateISO(0)),
                            !.endDate = Some(formatDateISO(13))] }

\* Strings that are not the encoding of a model.
ForeignStrings ==
    { EmptyText, BlankText,
      RawText("i", TRUE),                      \* 'invalid-base64': atob throws
      B64Text(RawText("x", TRUE)),             \* base64 of a text that is no JSON
      B64Text(RawText("x", FALSE)),            \* base64 of bytes that are no UTF-8
      B64Text(RawText("%", FALSE)),            \* base64 of a malformed '%' sequence
      B64Text(RawText("%", TRUE)) }            \* base64 of '%41bc': decodes, parses as no JSON
    \cup { B64Text(Utf8Text(JsonText(doc))) : doc \in PartialDocuments }
    \cup { B64Text(PctText(JsonText(doc))) : doc \in PartialDocuments }

CodecInit ==
    /\ data \in CodecModels
    /\ encoded = EmptyText
    /\ decoded = createDefaultGanttData
    /\ pc = "model"
    /\ cal = NoCal
    /\ res = NoRes
    /\ dragState = IdleDragState
    /\ style = NoStyle
    /\ blocks = NoBlocks
    /\ outcome = NoOutcome
    /\ saves = NoSaves
    /\ listeners = NoListeners
    /\ slot = NoSlot

\* encodeGanttData(data)
Encode ==
    /\ pc = "model"
    /\ encoded' = encodeGanttData(data)
    /\ pc' = "encoded"
    /\ UNCHANGED <<data, decoded, cal, res, dragState, style, blocks, outcome, saves, listeners, slot>>

\* what the previous format wrote: btoa(encodeURIComponent(json))
EncodeLegacy ==
    /\ pc = "model"
    /\ encoded' = btoa(encodeURIComponent(JSONstringify(toSerializable(data))))
    /\ pc' = "legacy"
    /\ UNCHANGED <<data, decoded, cal, res, dragState, style, blocks, outcome, saves, listeners, slot>>

\* a string from elsewhere is handed to decodeGanttData
ReceiveForeign ==
    /\ pc = "model"
    /\ encoded' \in ForeignStrings
    /\ pc' = "foreign"
    /\ UNCHANGED <<data, decoded, cal, res, dragState, style, blocks, outcome, saves, listeners, slot>>

\* decodeGanttData(encoded)
Decode ==
    /\ pc \in {"encoded", "legacy", "foreign"}
    /\ decoded' = decodeGanttData(encoded)
    /\ pc' = CASE pc = "encoded" -> "decoded"
               [] pc = "legacy" -> "legacyDecoded"
               [] OTHER -> "foreignDecoded"
    /\ UNCHANGED <<data, encoded, cal, res, dragState, style, blocks, outcome, saves, listeners, slot>>

\* encodeGanttData(decodeGanttData(encodeGanttData(data)))
ReEncode ==
    /\ pc = "decoded"
    /\ encoded' = encodeGanttData(decoded)
    /\ pc' = "reencoded"
    /\ UNCHANGED <<data, decoded, cal, res, dragState, style, blocks, outcome, saves, listeners, slot>>

CodecNext == Encode \/ EncodeLegacy \/ ReceiveForeign \/ Decode \/ ReEncode

SpecCodec == CodecInit /\ [][CodecNext]_vars

(***************************************************************************)
(* Calendar scenario: the pure functions of dateUtils and positionUtils    *)
(* are called on a timeline, dates and pixel positions drawn from a small  *)
(* window.                                                                 *)
(***************************************************************************)
DEFAULT_CELL_WIDTH == 30
MaxDay == 13
MaxAdd == 3
MaxCells == 4

\* VisualEditor constructor: the cell is twice as wide in week mode.
TimeScaleOf(d) == OrElse(d.timeScale, "day")
CellWidthOf(d) == IF TimeScaleOf(d) = "week" THEN DEFAULT_CELL_WIDTH * 2 ELSE DEFAULT_CELL_WIDTH

\* VisualEditor.getWorkingDaysConfig
getWorkingDaysConfig(d) ==
    [excludeWeekdays |-> d.excludeWeekdays,
     includeDates |-> d.includeDates,
     excludeDates |-> d.excludeDates]

Days == 0..MaxDay

\* day 5 is Saturday 2024-02-03, day 8 Tuesday 2024-02-06, day 1 Tuesday 2024-01-30
CalendarModels ==
    { [projects |-> <<>>, sprints |-> <<>>,
       startDate |-> sd, endDate |-> MaxDay,
       excludeWeekdays |-> ew,
       includeDates |-> inc, excludeDates |-> exc,
       showTodayLine |-> Some(TRUE),
       timeScale |-> Some(ts), weekStartsOn |-> ws] :
        sd \in {0, 5},
        ew \in { {}, {0, 6} },
        inc \in SUBSET {formatDateISO(5), formatDateISO(8)},
        exc \in SUBSET {formatDateISO(5), formatDateISO(1)},
        ts \in {"day", "week"},
        ws \in {None, Some(0)} }

CalendarInit ==
    /\ data \in CalendarModels
    /\ cal = NoCal
    /\ res = NoRes
    /\ pc = "ask"
    /\ encoded = EmptyText
    /\ decoded = createDefaultGanttData
    /\ dragState = IdleDragState
    /\ style = NoStyle
    /\ blocks = NoBlocks
    /\ outcome = NoOutcome
    /\ saves = NoSaves
    /\ listeners = NoListeners
    /\ slot = NoSlot

\* isWorkingDay(d, config)
IsWorkingDayCall ==
    /\ pc = "ask"
    /\ \E d \in Days :
          /\ cal' = [d1 |-> d, d2 |-> d, px |-> 0, n |-> 0]
          /\ res' = [NoRes EXCEPT !.kind = "working",
                                     !.working = isWorkingDay(d, getWorkingDaysConfig(data))]
    /\ pc' = "answered"
    /\ UNCHANGED <<data, encoded, decoded, dragState, style, blocks, outcome, saves, listeners, slot>>

\* getDatePosition(startDate, d1, ...) and getDatePosition(startDate, d2, ...)
GetDatePositionCall ==
    /\ pc = "ask"
    /\ \E d1 \in Days, d2 \in Days :
          /\ cal' = [d1 |-> d1, d2 |-> d2, px |-> 0, n |-> 0]
          /\ res' = [NoRes EXCEPT
                        !.kind = "position",
                        !.p1 = getDatePosition(data.startDate, d1, CellWidthOf(data),
                                               getWorkingDaysConfig(data), TimeScaleOf(data)),
                        !.p2 = getDatePosition(data.startDate, d2, CellWidthOf(data),
                                               getWorkingDaysConfig(data), TimeScaleOf(data))]
    /\ pc' = "answered"
    /\ UNCHANGED <<data, encoded, decoded, dragState, style, blocks, outcome, saves, listeners, slot>>

\* getDateFromPosition(startDate, px, ...), then getDatePosition of the result.
\* px runs over half cells from one cell left of the timeline to one right of it.
GetDateFromPositionCall ==
    /\ pc = "ask"
    /\ \E h \in -2..(2 * MaxDay + 4) :
          LET px == h * (CellWidthOf(data) \div 2)
              date == getDateFromPosition(data.startDate, px, CellWidthOf(data),
                                          getWorkingDaysConfig(data), TimeScaleOf(data))
          IN  /\ cal' = [d1 |-> 0, d2 |-> 0, px |-> px, n |-> 0]
              /\ res' = [NoRes EXCEPT
                            !.kind = "date",
                            !.date = date,
                            !.p1 = IF date = Unreached THEN -1
                                   ELSE getDatePosition(data.startDate, date, CellWidthOf(data),
                                                        getWorkingDaysConfig(data),
                                                        TimeScaleOf(data))]
    /\ pc' = "answered"
    /\ UNCHANGED <<data, encoded, decoded, dragState, style, blocks, outcome, saves, listeners, slot>>

\* getWorkingDaysBetween(d1, d2, config) and generateWorkingDaysScale(d1, d2, config)
GetWorkingDaysBetweenCall ==
    /\ pc = "ask"
    /\ \E d1 \in Days, d2 \in Days :
          /\ cal' = [d1 |-> d1, d2 |-> d2, px |-> 0, n |-> 0]
          /\ res' = [NoRes EXCEPT
                        !.kind = "count",
                        !.p1 = getWorkingDaysBetween(d1, d2, getWorkingDaysConfig(data)),
                        !.p2 = Len(generateWorkingDaysScale(d1, d2,
                                                            getWorkingDaysConfig(data)))]
    /\ pc' = "answered"
    /\ UNCHANGED <<data, encoded, decoded, dragState, style, blocks, outcome, saves, listeners, slot>>

\* addWorkingDays(d, n, config)
AddWorkingDaysCall ==
    /\ pc = "ask"
    /\ \E d \in Days, n \in 0..MaxAdd :
          /\ cal' = [d1 |-> d, d2 |-> d, px |-> 0, n |-> n]
          /\ res' = [NoRes EXCEPT !.kind = "add",
                                     !.date = addWorkingDays(d, n, getWorkingDaysConfig(data))]
    /\ pc' = "answered"
    /\ UNCHANGED <<data, encoded, decoded, dragState, style, blocks, outcome, saves, listeners, slot>>

\* constrainPosition(position, elementWidth, minPosition, maxPosition), the
\* arguments in whole cells
ConstrainPositionCall ==
    /\ pc = "ask"
    /\ \E position \in -1..(MaxCells + 2), elementWidth \in 0..(MaxCells + 1),
          minPosition \in {0, 1}, maxPosition \in {MaxCells - 1, MaxCells} :
          /\ cal' = [position |-> position * DEFAULT_CELL_WIDTH,
                     elementWidth |-> elementWidth * DEFAULT_CELL_WIDTH,
                     minPosition |-> minPosition * DEFAULT_CELL_WIDTH,
                     maxPosition |-> maxPosition * DEFAULT_CELL_WIDTH]
          /\ res' = [NoRes EXCEPT
                        !.kind = "constrain",
                        !.p1 = constrainPosition(position * DEFAULT_CELL_WIDTH,
                                                 elementWidth * DEFAULT_CELL_WIDTH,
                                                 minPosition * DEFAULT_CELL_WIDTH,
                                                 maxPosition * DEFAULT_CELL_WIDTH)]
    /\ pc' = "answered"
    /\ UNCHANGED <<data, encoded, decoded, dragState, style, blocks, outcome, saves, listeners, slot>>

CalendarNext ==
    \/ ConstrainPositionCall
    \/ AddWorkingDaysCall
    \/ IsWorkingDayCall
    \/ GetDatePositionCall
    \/ GetDateFromPositionCall
    \/ GetWorkingDaysBetweenCall

SpecCalendar == CalendarInit /\ [][CalendarNext]_vars

(***************************************************************************)
(* addWorkingDays as a loop: one step per iteration of                     *)
(*   while (addedDays < workingDays) { current++; if working addedDays++ } *)
(* res.date is current, res.p1 is addedDays; the walk is followed up to    *)
(* the day Horizon.                                                        *)
(***************************************************************************)
AllWeekdays == 0..6

LoopModels ==
    { [projects |-> <<>>, sprints |-> <<>>,
       startDate |-> 0, endDate |-> MaxDay,
       excludeWeekdays |-> ew,
       includeDates |-> inc, excludeDates |-> exc,
       showTodayLine |-> Some(TRUE),
       timeScale |-> None, weekStartsOn |-> None] :
        ew \in { {}, {0, 6}, AllWeekdays },
        inc \in SUBSET {formatDateISO(5), formatDateISO(8)},
        exc \in SUBSET {formatDateISO(8), formatDateISO(1)} }

AddInit ==
    /\ data \in LoopModels
    /\ \E d \in Days, n \in 0..MaxAdd :
          /\ cal = [d1 |-> d, d2 |-> d, px |-> 0, n |-> n]
          /\ res = [NoRes EXCEPT !.kind = "adding", !.date = d, !.p1 = 0]
    /\ pc = "loop"
    /\ encoded = EmptyText
    /\ decoded = createDefaultGanttData
    /\ dragState = IdleDragState
    /\ style = NoStyle
    /\ blocks = NoBlocks
    /\ outcome = NoOutcome
    /\ saves = NoSaves
    /\ listeners = NoListeners
    /\ slot = NoSlot

\* an iteration that counts the date whether it is a working day or not
AddWorkingDaysIterateAny ==
    /\ pc = "loop" /\ res.kind = "adding"
    /\ res.p1 < cal.n
    /\ res.date < Horizon
    /\ res' = [res EXCEPT !.date = @ + 1, !.p1 = @ + 1]
    /\ UNCHANGED <<data, encoded, decoded, pc, cal, dragState, style, blocks, outcome, saves, listeners, slot>>

\* one iteration of the while loop
AddWorkingDaysIterate ==
    /\ pc = "loop" /\ res.kind = "adding"
    /\ res.p1 < cal.n
    /\ res.date < Horizon
    /\ res' = [res EXCEPT
                  !.date = @ + 1,
                  !.p1 = IF isWorkingDay(res.date + 1, getWorkingDaysConfig(data))
                         THEN @ + 1 ELSE @]
    /\ UNCHANGED <<data, encoded, decoded, pc, cal, dragState, style, blocks, outcome, saves, listeners, slot>>

\* the loop condition fails: return current
AddWorkingDaysReturn ==
    /\ pc = "loop" /\ res.kind = "adding"
    /\ ~(res.p1 < cal.n)
    /\ res' = [res EXCEPT !.kind = "added"]
    /\ UNCHANGED <<data, encoded, decoded, pc, cal, dragState, style, blocks, outcome, saves, listeners, slot>>

AddNext == AddWorkingDaysIterate \/ AddWorkingDaysReturn

SpecAddWorkingDays == AddInit /\ [][AddNext]_vars

\* the call runs on: an iteration or the return that can be taken is taken
SpecAddWorkingDaysFair == SpecAddWorkingDays /\ WF_vars(AddNext)

(***************************************************************************)
(* Claims about the calendar and the mapper                                *)
(***************************************************************************)
\* the dates named by a list of ISO strings
DatesOf(list) == { d \in -7..Unreached : formatDateISO(d) \in list }
Weekday(d) == <<1, 2, 3, 4, 5, 6, 0>>[(d % 7) + 1]

\* C5: isWorkingUnit follows excludeDates > includeDates > excludeWeekdays >
\* working: an excluded date is not working even when it is also included;
\* otherwise an included date is working even on an excluded weekday;
\* otherwise the date is working iff its weekday is not excluded.
C5_CalendarPrecedence ==
    res.kind = "working" =>
        LET d == cal.d1
            excluded == d \in DatesOf(data.excludeDates)
            included == d \in DatesOf(data.includeDates)
        IN  /\ excluded => ~res.working
            /\ (~excluded /\ included) => res.working
            /\ (~excluded /\ ~included) =>
                  (res.working <=> Weekday(d) \notin data.excludeWeekdays)

C5_Witness ==
    /\ res.kind = "working"
    /\ cal.d1 \in DatesOf(data.excludeDates) \cap DatesOf(data.includeDates)
    /\ Weekday(cal.d1) \in data.excludeWeekdays
    /\ ~res.working

InTimeline(d) == data.startDate <= d /\ d <= data.endDate
WorkingUnit(d) ==
    /\ d \notin DatesOf(data.excludeDates)
    /\ d \in DatesOf(data.includeDates) \/ Weekday(d) \notin data.excludeWeekdays
\* the week of a date as the mapper counts weeks: Monday to Sunday
MondayWeek(d) == d \div 7

\* C6: for d1 < d2 on the timeline, both working units: in day mode
\* position(d1) < position(d2); in week mode position(d1) <= position(d2),
\* with equality when both dates fall in the same week.
C6_PositionMonotone ==
    (res.kind = "position" /\ cal.d1 < cal.d2 /\ InTimeline(cal.d1) /\ InTimeline(cal.d2)) =>
        /\ (TimeScaleOf(data) = "day" /\ WorkingUnit(cal.d1) /\ WorkingUnit(cal.d2))
              => res.p1 < res.p2
        /\ TimeScaleOf(data) = "week" =>
              /\ res.p1 <= res.p2
              /\ MondayWeek(cal.d1) = MondayWeek(cal.d2) => res.p1 = res.p2
              /\ MondayWeek(cal.d1) < MondayWeek(cal.d2) => res.p1 < res.p2

C6_Witness ==
    /\ res.kind = "position"
    /\ TimeScaleOf(data) = "day"
    /\ data.startDate = 5
    /\ ~WorkingUnit(data.startDate)
    /\ cal.d1 = 7 /\ cal.d2 = 8
    /\ WorkingUnit(cal.d1) /\ WorkingUnit(cal.d2)
    /\ res.p1 = 0 /\ res.p2 = DEFAULT_CELL_WIDTH

\* C7: for every pixel value p that is a multiple of the cell width within
\* [minPosition, maxPosition], in day and in week mode, also when the
\* timeline starts on a non-working day:
\* dateToPosition(positionToDate(p)) = p.
C7_InverseConsistent ==
    LET limits == getPositionLimits(data.startDate, data.endDate, CellWidthOf(data),
                                    getWorkingDaysConfig(data), TimeScaleOf(data))
    IN  (/\ res.kind = "date"
         /\ cal.px % CellWidthOf(data) = 0
         /\ limits.minPosition <= cal.px /\ cal.px <= limits.maxPosition)
        => (res.date # Unreached /\ res.p1 = cal.px)

C7_Witness ==
    /\ res.kind = "date"
    /\ TimeScaleOf(data) = "day"
    /\ ~WorkingUnit(data.startDate)
    /\ cal.px = 2 * DEFAULT_CELL_WIDTH
    /\ res.p1 = cal.px
    /\ res.date > data.startDate + 2

\* C16: countWorkingUnitsBetween(start, end, config) is the number of
\* working dates d with start <= d <= end, both ends counted, and the length
\* of generateWorkingUnitsScale(start, end, config); it is 0 when end < start
\* and when no date of the range is a working date.
C16_InclusiveCount ==
    res.kind = "count" =>
        /\ res.p1 = Cardinality({ d \in cal.d1..cal.d2 : WorkingUnit(d) })
        /\ res.p1 = res.p2
        /\ cal.d2 < cal.d1 => res.p1 = 0
        /\ (\A d \in cal.d1..cal.d2 : ~WorkingUnit(d)) => res.p1 = 0
        /\ (WorkingUnit(cal.d1) /\ WorkingUnit(cal.d2) /\ cal.d1 < cal.d2) => res.p1 >= 2

\* Friday to Monday over an excluded weekend: the two ends are counted,
\* the weekend is not
C16_Witness ==
    /\ res.kind = "count"
    /\ cal.d1 = 4 /\ cal.d2 = 7
    /\ ~WorkingUnit(5) /\ ~WorkingUnit(6)
    /\ res.p1 = 2 /\ res.p2 = 2

\* C23: addWorkingUnits(start, n, config) returns for n >= 1 the n-th working
\* date strictly after start (start itself is never counted), and for n = 0
\* it returns start, also when start is not a working day.
C23_NthWorkingDateAfter ==
    res.kind = "add" =>
        /\ cal.n = 0 => res.date = cal.d1
        /\ cal.n >= 1 =>
              /\ res.date # Unreached
              /\ res.date > cal.d1
              /\ WorkingUnit(res.date)
              /\ Cardinality({ d \in (cal.d1 + 1)..res.date : WorkingUnit(d) }) = cal.n

\* two working days after a Friday that is itself a working day, over an
\* excluded weekend: the Tuesday
C23_Witness ==
    /\ res.kind = "add"
    /\ cal.d1 = 4 /\ cal.n = 2
    /\ WorkingUnit(4) /\ ~WorkingUnit(5) /\ ~WorkingUnit(6) /\ WorkingUnit(7) /\ WorkingUnit(8)
    /\ res.date = 8

\* no date after the start of the walk is a working date: every weekday is
\* excluded and no included date lies after it
NoWorkingDateAfterStart ==
    /\ data.excludeWeekdays = AllWeekdays
    /\ \A d \in DatesOf(data.includeDates) : d <= cal.d1 \/ d \in DatesOf(data.excludeDates)

C25_ConstrainPosition ==
    res.kind = "constrain" =>
        LET r == res.p1
            pos == cal.position
            w == cal.elementWidth
            min == cal.minPosition
            max == cal.maxPosition
        IN  /\ r >= min
            /\ w <= max - min => r + w <= max
            /\ (min <= pos /\ pos + w <= max) => r = pos
            /\ w > max - min => r = min

\* an element wider than the room between the bounds, asked for at a
\* position right of the left bound: it is put on the left bound
C25_Witness ==
    /\ res.kind = "constrain"
    /\ cal.elementWidth > cal.maxPosition - cal.minPosition
    /\ cal.position > cal.minPosition
    /\ cal.minPosition > 0
    /\ res.p1 = cal.minPosition

\* C17: in week mode the mapper counts weeks from the week start the model's
\* weekStartsOn names (0 = Sunday, 1 = Monday, 1 when absent): the position
\* of a date is the one GanttRenderer.getDatePosition gives for that
\* weekStartsOn, and positionToDate returns a day that starts such a week.
C17_WeekStartsOnHonoured ==
    TimeScaleOf(data) = "week" =>
        /\ res.kind = "position" =>
              res.p1 = RendererDatePosition(data.startDate, cal.d1, CellWidthOf(data),
                                            getWorkingDaysConfig(data), "week",
                                            OrElse(data.weekStartsOn, 1))
        /\ (res.kind = "date" /\ res.date # Unreached) =>
              getDay(res.date) = OrElse(data.weekStartsOn, 1)

(***************************************************************************)
(* Gesture scenario: a chart is rendered by GanttRenderer and a            *)
(* VisualEditor is attached to it with the same model (plugin.ts,          *)
(* registerMacroRenderer and setupDragAndDrop).  The user presses, moves   *)
(* and releases the pointer over the stage s1 and the milestone m1; the    *)
(* stage s2 is on the chart and is never pressed.  Pointer coordinates     *)
(* are relative to the left edge of the timeline row, in half cells.       *)
(***************************************************************************)
GestureSpan == 4

AllStages(d) ==
    UNION { { d.projects[p].stages[i] : i \in 1..Len(d.projects[p].stages) } :
            p \in 1..Len(d.projects) }
AllMilestones(d) ==
    UNION { { d.projects[p].milestones[i] : i \in 1..Len(d.projects[p].milestones) } :
            p \in 1..Len(d.projects) }

\* VisualEditor.findStageById / findMilestoneById (ids are unique in the scenario)
findStageById(d, id) ==
    LET hits == { st \in AllStages(d) : st.id = id }
    IN  IF hits = {} THEN None ELSE Some(CHOOSE st \in hits : TRUE)
findMilestoneById(d, id) ==
    LET hits == { ms \in AllMilestones(d) : ms.id = id }
    IN  IF hits = {} THEN None ELSE Some(CHOOSE ms \in hits : TRUE)

\* the assignment  stage.start = ..; stage.duration = ..  on the stage found
WithStage(d, id, newStart, newDuration) ==
    LET upd(st) == IF st.id = id
                   THEN [st EXCEPT !.start = newStart, !.duration = newDuration]
                   ELSE st
        updProject(pr) == [pr EXCEPT !.stages = SeqMap(upd, pr.stages)]
    IN  [d EXCEPT !.projects = SeqMap(updProject, d.projects)]

\* the assignment  milestone.date = ..
WithMilestone(d, id, newDate) ==
    LET upd(ms) == IF ms.id = id THEN [ms EXCEPT !.date = newDate] ELSE ms
        updProject(pr) == [pr EXCEPT !.milestones = SeqMap(upd, pr.milestones)]
    IN  [d EXCEPT !.projects = SeqMap(updProject, d.projects)]

\* the fixed offset of a milestone marker
MilestoneOffset(timeScale) == IF timeScale = "week" THEN 27 ELSE 10

\* GanttRenderer.render:  const weekStartsOn = data.weekStartsOn || 1
RenderWeekStartsOn(d) ==
    LET w == OrElse(d.weekStartsOn, 1) IN IF w = 0 THEN 1 ELSE w

\* GanttRenderer.renderStage / renderMilestone: the inline style of the element
renderStage(stage, d) ==
    [left |-> RendererDatePosition(d.startDate, stage.start, CellWidthOf(d),
                                   getWorkingDaysConfig(d), TimeScaleOf(d),
                                   RenderWeekStartsOn(d)),
     width |-> stage.duration * CellWidthOf(d),
     boundary |-> FALSE,
     type |-> "stage"]
renderMilestone(milestone, d) ==
    [left |-> RendererDatePosition(d.startDate, milestone.date, CellWidthOf(d),
                                   getWorkingDaysConfig(d), TimeScaleOf(d),
                                   RenderWeekStartsOn(d))
              + MilestoneOffset(TimeScaleOf(d)),
     width |-> 0,
     boundary |-> FALSE,
     type |-> "milestone"]

\* the elements of the rendered chart, by data-stage-id / data-milestone-id
render(d) ==
    [e \in { st.id : st \in AllStages(d) } \cup { ms.id : ms \in AllMilestones(d) } |->
        IF findStageById(d, e) # None
        THEN renderStage(Get(findStageById(d, e)), d)
        ELSE renderMilestone(Get(findMilestoneById(d, e)), d)]

\* dataset.type of an element (the data-type attribute written by the renderer)
DatasetType(st, e) == st[e].type

GestureStage(start) ==
    [id |-> "s1", name |-> "Stage", type |-> "Stage", start |-> start, duration |-> 2,
     assignee |-> None, color |-> "FF6B6B"]
PassiveStage ==
    [id |-> "s2", name |-> "Deploy", type |-> "Deploy", start |-> 3, duration |-> 1,
     assignee |-> None, color |-> "4ECDC4"]
GestureMilestone(date) ==
    [id |-> "m1", name |-> "Release", type |-> "Release", date |-> date,
     assignee |-> None, color |-> Some("FFD93D")]

\* a chart with the stages s1 and s2, or with the stage s2 and the milestone m1
GestureProjects ==
    { [id |-> "p1", name |-> "Project", assignee |-> None,
       stages |-> <<GestureStage(at), PassiveStage>>, milestones |-> <<>>,
       layout |-> Some("inline")] : at \in {1, 7} }
    \cup
    { [id |-> "p1", name |-> "Project", assignee |-> None,
       stages |-> <<PassiveStage>>, milestones |-> <<GestureMilestone(at)>>,
       layout |-> Some("inline")] : at \in {1, 7} }

\* day 2 is Wednesday 2024-01-31, day 5 Saturday 2024-02-03, day 7 Monday 2024-02-05
GestureModels ==
    { [projects |-> <<pr>>,
       sprints |-> <<>>,
       startDate |-> sd, endDate |-> sd + GestureSpan,
       excludeWeekdays |-> DEFAULT_EXCLUDE_WEEKDAYS,
       includeDates |-> {}, excludeDates |-> exc,
       showTodayLine |-> Some(TRUE),
       timeScale |-> ts, weekStartsOn |-> None] :
        pr \in GestureProjects,
        sd \in {0, 5},
        exc \in { {}, {formatDateISO(2)} },
        ts \in {None, Some("week")} }

Pressable == {"s1", "m1"}
\* pc is "released" after a pointer-up was handled, "edit" otherwise
GesturePcs == {"edit", "released"}
PointerSteps == -2..(2 * MaxCells + 2)

GestureInit ==
    /\ data \in GestureModels
    /\ style = render(data)
    /\ blocks = NoBlocks
    /\ outcome = NoOutcome
    /\ saves = NoSaves
    /\ listeners = NoListeners
    /\ slot = NoSlot
    /\ dragState = IdleDragState
    /\ encoded = encodeGanttData(data)
    /\ decoded = createDefaultGanttData
    /\ pc = "edit"
    /\ cal = NoCal
    /\ res = NoRes

\* handleMouseDown.  There is no test of the current drag state in it.
handleMouseDown ==
    /\ pc \in GesturePcs
    /\ \E e \in Pressable \cap DOMAIN style :
          LET stage == findStageById(data, e)
          IN  \/ \* the target is the resize handle of a stage element
                 /\ DatasetType(style, e) = "stage"
                 /\ dragState' =
                       [dragState EXCEPT
                           !.isResizing = TRUE,
                           !.dragTarget = Some(e),
                           !.dragType = Some("stage"),
                           !.resizeType = Some("right"),
                           !.initialStageStart =
                               IF stage # None THEN Some(Get(stage).start) ELSE @,
                           !.initialStageDuration =
                               IF stage # None THEN Some(Get(stage).duration) ELSE @]
              \/ \* the target is inside a stage or milestone element
                 \E off \in {0, CellWidthOf(data) \div 2} :
                    dragState' =
                       [dragState EXCEPT
                           !.isDragging = TRUE,
                           !.dragTarget = Some(e),
                           !.dragType = Some(DatasetType(style, e)),
                           !.initialStageStart =
                               IF DatasetType(style, e) = "stage" /\ stage # None
                               THEN Some(Get(stage).start) ELSE @,
                           !.initialStageDuration =
                               IF DatasetType(style, e) = "stage" /\ stage # None
                               THEN Some(Get(stage).duration) ELSE @,
                           !.dragOffset = off]
    /\ pc' = "edit"
    /\ UNCHANGED <<data, encoded, decoded, cal, res, style, blocks, outcome, saves, listeners, slot>>

\* a pointer-move that gives the gesture up
handleMouseMoveCancel ==
    /\ pc \in GesturePcs
    /\ dragState.isDragging \/ dragState.isResizing
    /\ dragState' = IdleDragState
    /\ pc' = "edit"
    /\ UNCHANGED <<data, encoded, decoded, cal, res, style, blocks, outcome, saves, listeners, slot>>

\* a pointer-move that also writes the snapped position into the model
handleMouseMoveLive ==
    /\ pc \in GesturePcs
    /\ dragState.isDragging /\ ~dragState.isResizing
    /\ dragState.dragTarget # None
    /\ \E h \in PointerSteps :
          LET e == Get(dragState.dragTarget)
              x == h * (CellWidthOf(data) \div 2) - dragState.dragOffset
              moved == [style EXCEPT ![e].left = Max(0, snapToGrid(x, CellWidthOf(data)))]
          IN  /\ style' = moved
              /\ data' = IF /\ dragState.dragType = Some("stage")
                            /\ findStageById(data, e) # None
                         THEN WithStage(data, e,
                                        getDateFromPosition(data.startDate, moved[e].left,
                                                            CellWidthOf(data),
                                                            getWorkingDaysConfig(data),
                                                            TimeScaleOf(data)),
                                        Get(findStageById(data, e)).duration)
                         ELSE data
    /\ pc' = "edit"
    /\ UNCHANGED <<encoded, decoded, cal, res, dragState, blocks, outcome, saves, listeners, slot>>

\* handleMouseMove: only the inline style of the target changes.
handleMouseMove ==
    /\ pc \in GesturePcs
    /\ dragState.isDragging \/ dragState.isResizing
    /\ dragState.dragTarget # None
    /\ \E h \in PointerSteps :
          LET e == Get(dragState.dragTarget)
              cellWidth == CellWidthOf(data)
              mouseX == h * (cellWidth \div 2)
              config == getWorkingDaysConfig(data)
              timeScale == TimeScaleOf(data)
          IN  IF dragState.isResizing
              THEN LET stage == findStageById(data, e)
                   IN  IF stage = None \/ dragState.initialStageStart = None
                       THEN UNCHANGED style
                       ELSE LET startPosition == getDatePosition(data.startDate, Get(stage).start,
                                                                 cellWidth, config, timeScale)
                                minMouseX == startPosition + cellWidth \div 2
                                clampedMouseX == Max(minMouseX, mouseX)
                                newWidth == clampedMouseX - startPosition
                            IN  style' = [style EXCEPT ![e].width = newWidth]
              ELSE LET x == mouseX - dragState.dragOffset
                       offset == MilestoneOffset(timeScale)
                       gridPosition == IF dragState.dragType = Some("milestone")
                                       THEN snapToGrid(x, cellWidth) + offset
                                       ELSE snapToGrid(x, cellWidth)
                       limits == getPositionLimits(data.startDate, data.endDate, cellWidth,
                                                   config, timeScale)
                       constrainedPosition ==
                           IF dragState.dragType = Some("stage")
                           THEN constrainPosition(gridPosition, style[e].width,
                                                  limits.minPosition, limits.maxPosition)
                           ELSE IF dragState.dragType = Some("milestone")
                           THEN Max(limits.minPosition + offset,
                                    Min(limits.maxPosition + offset, gridPosition))
                           ELSE constrainPosition(gridPosition, 0,
                                                  limits.minPosition, limits.maxPosition)
                   IN  style' = [style EXCEPT
                                    ![e].left = constrainedPosition,
                                    ![e].boundary = (constrainedPosition # gridPosition)]
    /\ pc' = "edit"
    /\ UNCHANGED <<data, encoded, decoded, cal, res, dragState, blocks, outcome, saves, listeners, slot>>

\* a stage that would end after the timeline is cut to fit
updateItemPositionTrim(d, ds, st) ==
    LET e == Get(ds.dragTarget)
        timeScale == TimeScaleOf(d)
        leftValue == IF ds.dragType = Some("milestone")
                     THEN st[e].left - MilestoneOffset(timeScale)
                     ELSE st[e].left
        newDate == getDateFromPosition(d.startDate, leftValue, CellWidthOf(d),
                                       getWorkingDaysConfig(d), timeScale)
    IN  IF ds.dragType = Some("stage")
        THEN IF findStageById(d, e) # None /\ ds.initialStageDuration # None
             THEN LET originalDuration == Get(ds.initialStageDuration)
                      newStartDate == IF newDate < d.startDate THEN d.startDate ELSE newDate
                      newEndDate == getStageEndDate(newStartDate, originalDuration)
                  IN  IF newEndDate > d.endDate
                      THEN WithStage(d, e, newStartDate, Max(1, d.endDate - newStartDate))
                      ELSE WithStage(d, e, newStartDate, originalDuration)
             ELSE d
        ELSE IF ds.dragType = Some("milestone") /\ findMilestoneById(d, e) # None
        THEN WithMilestone(d, e, clampDate(newDate, d.startDate, d.endDate))
        ELSE d

\* a stage that is not found is replaced by the first stage of the chart
updateItemPositionFallback(d, ds, st) ==
    LET e == Get(ds.dragTarget)
        timeScale == TimeScaleOf(d)
        leftValue == IF ds.dragType = Some("milestone")
                     THEN st[e].left - MilestoneOffset(timeScale)
                     ELSE st[e].left
        newDate == getDateFromPosition(d.startDate, leftValue, CellWidthOf(d),
                                       getWorkingDaysConfig(d), timeScale)
        found == IF findStageById(d, e) # None THEN findStageById(d, e)
                 ELSE IF AllStages(d) # {} THEN Some(d.projects[1].stages[1])
                 ELSE None
    IN  IF ds.dragType = Some("stage")
        THEN IF found # None
             THEN LET originalDuration == OrElse(ds.initialStageDuration, Get(found).duration)
                      start1 == IF newDate < d.startDate THEN d.startDate ELSE newDate
                      newEndDate == getStageEndDate(start1, originalDuration)
                      newStartDate == IF newEndDate > d.endDate THEN newDate ELSE start1
                  IN  WithStage(d, Get(found).id, newStartDate, originalDuration)
             ELSE d
        ELSE IF ds.dragType = Some("milestone") /\ findMilestoneById(d, e) # None
        THEN WithMilestone(d, e, clampDate(newDate, d.startDate, d.endDate))
        ELSE d

\* updateItemPosition(element): the model after a drag is committed
updateItemPosition(d, ds, st) ==
    LET e == Get(ds.dragTarget)
        timeScale == TimeScaleOf(d)
        leftValue == IF ds.dragType = Some("milestone")
                     THEN st[e].left - MilestoneOffset(timeScale)
                     ELSE st[e].left
        newDate == getDateFromPosition(d.startDate, leftValue, CellWidthOf(d),
                                       getWorkingDaysConfig(d), timeScale)
    IN  IF ds.dragType = Some("stage")
        THEN IF /\ findStageById(d, e) # None
                /\ ds.initialStageStart # None
                /\ ds.initialStageDuration # None
                /\ Get(ds.initialStageDuration) # 0
             THEN LET originalDuration == Get(ds.initialStageDuration)
                      clamped == newDate < d.startDate
                      start1 == IF clamped THEN d.startDate ELSE newDate
                      newEndDate == getStageEndDate(start1, originalDuration)
                      newStartDate == IF newEndDate > d.endDate THEN newDate ELSE start1
                  IN  WithStage(d, e, newStartDate, originalDuration)
             ELSE d
        ELSE IF ds.dragType = Some("milestone")
        THEN IF findMilestoneById(d, e) # None
             THEN WithMilestone(d, e, clampDate(newDate, d.startDate, d.endDate))
             ELSE d
        ELSE d

\* handleMouseUp: commit, hand the model to the store, reset the drag state.
handleMouseUp ==
    /\ pc \in GesturePcs
    /\ dragState.isDragging \/ dragState.isResizing
    /\ dragState.dragTarget # None
    /\ LET e == Get(dragState.dragTarget)
           cellWidth == CellWidthOf(data)
           stage == findStageById(data, e)
       IN  IF dragState.isResizing
           THEN IF /\ stage # None
                   /\ dragState.initialStageStart # None
                   /\ dragState.initialStageDuration # None
                   /\ Get(dragState.initialStageDuration) # 0
                THEN LET newDuration == getDurationFromWidth(style[e].width, cellWidth)
                         committed == IF newDuration > 0 THEN newDuration
                                      ELSE Get(stage).duration
                         finalPosition == getDatePosition(data.startDate, Get(stage).start,
                                                          cellWidth, getWorkingDaysConfig(data),
                                                          TimeScaleOf(data))
                         finalWidth == getWidthFromDuration(committed, cellWidth)
                     IN  /\ data' = WithStage(data, e, Get(stage).start, committed)
                         /\ style' = [style EXCEPT ![e].left = finalPosition,
                                                   ![e].width = finalWidth,
                                                   ![e].boundary = FALSE]
                ELSE /\ data' = data
                     /\ style' = [style EXCEPT ![e].boundary = FALSE]
           ELSE /\ data' = updateItemPosition(data, dragState, style)
                /\ style' = [style EXCEPT ![e].boundary = FALSE]
    /\ encoded' = encodeGanttData(data')
    /\ dragState' = IdleDragState
    /\ pc' = "released"
    /\ UNCHANGED <<decoded, cal, res, blocks, outcome, saves, listeners, slot>>

\* EditorModal.handleDeleteStage / handleDeleteMilestone.  The modal works on
\* the object the VisualEditor holds (plugin.ts: slotDataMap / setupDragAndDrop);
\* the chart is not rendered again by it.
WithoutEntity(d, id) ==
    LET keep(x) == x.id # id
        updProject(pr) == [pr EXCEPT !.stages = SelectSeq(pr.stages, keep),
                                     !.milestones = SelectSeq(pr.milestones, keep)]
    IN  [d EXCEPT !.projects = SeqMap(updProject, d.projects)]

handleDelete ==
    /\ pc \in GesturePcs
    /\ \E x \in AllStages(data) \cup AllMilestones(data) :
          /\ x.id \in Pressable
          /\ data' = WithoutEntity(data, x.id)
    /\ pc' = "edit"
    /\ UNCHANGED <<encoded, decoded, cal, res, dragState, style, blocks, outcome, saves, listeners, slot>>

GestureNext == handleMouseDown \/ handleMouseMove \/ handleMouseUp \/ handleDelete

SpecGesture == GestureInit /\ [][GestureNext]_vars

(***************************************************************************)
(* Claims about gestures                                                   *)
(***************************************************************************)
PureDragRelease(type) ==
    /\ dragState.isDragging /\ ~dragState.isResizing
    /\ dragState.dragType = Some(type)
    /\ dragState.dragTarget # None
    /\ findStageById(data, Get(dragState.dragTarget)) # None
    /\ pc' = "released"

\* C8: a completed drag of a stage (pointer-down on the stage, pointer-moves,
\* pointer-up) leaves the duration of every stage as it was; nothing of the
\* model changes but the start of the dragged stage.
C8_DragPreservesDuration ==
    [][ PureDragRelease("stage") =>
          LET e == Get(dragState.dragTarget)
              after == Get(findStageById(data', e))
              before == Get(findStageById(data, e))
          IN  /\ after.duration = before.duration
              /\ \A st \in AllStages(data') :
                    \E old \in AllStages(data) : old.id = st.id /\ old.duration = st.duration
              /\ data' = WithStage(data, e, after.start, before.duration) ]_vars

\* s1 has left both dates it can start on, which only a committed drag does,
\* and it has the duration it was created with.
C8_Witness ==
    /\ dragState = IdleDragState
    /\ findStageById(data, "s1") # None
    /\ Get(findStageById(data, "s1")).start \notin {1, 7}
    /\ Get(findStageById(data, "s1")).duration = 2
    /\ encoded = encodeGanttData(data)

\* the k-th working day after a date
KthWorkingDayAfter(d, k) ==
    CHOOSE t \in d..Unreached :
        /\ t = d \/ WorkingUnit(t)
        /\ Cardinality({ x \in (d + 1)..t : WorkingUnit(x) }) = k

C10_OneGestureAtATime == ~(dragState.isDragging /\ dragState.isResizing)

Entities(d) == AllStages(d) \cup AllMilestones(d)
GestureActive == dragState.isDragging \/ dragState.isResizing

\* C11: a pointer-move during Dragging or Resizing leaves the model (every
\* stage start and duration, every milestone date) as it is; a stage or a
\* milestone gets new values only in the pointer-up step.
C11_MoveLeavesModel ==
    [][ /\ (style' # style /\ pc' = "edit") => (data' = data /\ encoded' = encoded)
        /\ pc' # "released" => Entities(data') \subseteq Entities(data) ]_vars

\* the stage s1 is being dragged and stands elsewhere than the model puts it
C11_Witness ==
    /\ dragState.isDragging /\ ~dragState.isResizing
    /\ dragState.dragTarget = Some("s1")
    /\ findStageById(data, "s1") # None
    /\ style["s1"].left # renderStage(Get(findStageById(data, "s1")), data).left
    /\ encoded = encodeGanttData(data)

\* C12: a completed resize leaves stage.start as it is and commits
\* stage.duration = max(1, round-half-up(final width / cellWidth)), an
\* integer >= 1.
C12_ResizeCommit ==
    [][ (/\ dragState.isResizing /\ pc' = "released"
         /\ dragState.dragTarget # None
         /\ findStageById(data, Get(dragState.dragTarget)) # None)
        => LET e == Get(dragState.dragTarget)
               before == Get(findStageById(data, e))
               after == Get(findStageById(data', e))
               w == style[e].width
               cw == CellWidthOf(data)
           IN  /\ after.start = before.start
               /\ after.duration >= 1
               /\ after.duration = 1 => 2 * w < 3 * cw
               /\ after.duration > 1 =>
                     /\ (2 * after.duration - 1) * cw <= 2 * w
                     /\ 2 * w < (2 * after.duration + 1) * cw
               /\ data' = WithStage(data, e, before.start, after.duration) ]_vars

\* s1 was released at three cells: only a resize gives it another duration
\* than the 2 it was created with
C12_Witness ==
    /\ pc = "released"
    /\ dragState = IdleDragState
    /\ findStageById(data, "s1") # None
    /\ Get(findStageById(data, "s1")).duration = 3
    /\ style["s1"].width = 3 * CellWidthOf(data)

TargetMissing ==
    /\ dragState.dragTarget # None
    /\ findStageById(data, Get(dragState.dragTarget)) = None
    /\ findMilestoneById(data, Get(dragState.dragTarget)) = None

\* C13: when the stage or milestone of the active gesture is no longer in
\* the model at pointer-up, the pointer-up changes nothing of the model and
\* the drag state is Idle after it.
C13_MissingEntityDiscarded ==
    [][ (GestureActive /\ TargetMissing /\ pc' = "released")
        => (data' = data /\ dragState' = IdleDragState) ]_vars

\* pointer-up was the last event handled, s2 is in the model and s1,
\* whose element is still on the chart, is not
C13_Witness ==
    /\ pc = "released"
    /\ dragState = IdleDragState
    /\ "s1" \in DOMAIN style
    /\ findStageById(data, "s1") = None
    /\ findStageById(data, "s2") # None

\* C21: after a completed drag of a stage, in day mode and in week mode,
\* the committed stage.start is >= the timeline's startDate.
C21_StageStartInTimeline ==
    [][ PureDragRelease("stage") =>
          Get(findStageById(data', Get(dragState.dragTarget))).start >= data.startDate ]_vars

MilestoneDragRelease ==
    /\ dragState.isDragging /\ ~dragState.isResizing
    /\ dragState.dragType = Some("milestone")
    /\ dragState.dragTarget # None
    /\ findMilestoneById(data, Get(dragState.dragTarget)) # None
    /\ pc' = "released"

\* C22: after a completed drag of a milestone the committed milestone.date
\* lies in [startDate, endDate], whatever positions the pointer visited.
C22_MilestoneDateInTimeline ==
    [][ MilestoneDragRelease =>
          LET date == Get(findMilestoneById(data', Get(dragState.dragTarget))).date
          IN  data.startDate <= date /\ date <= data.endDate ]_vars

\* in week mode, on a timeline that starts on a Saturday, m1 was released in
\* the first column: the Monday of that week was raised to the startDate
C22_Witness ==
    /\ pc = "released"
    /\ dragState = IdleDragState
    /\ TimeScaleOf(data) = "week"
    /\ getDay(data.startDate) = 6
    /\ findMilestoneById(data, "m1") # None
    /\ Get(findMilestoneById(data, "m1")).date = data.startDate
    /\ getWeekStart(data.startDate, 1) < data.startDate

\* C26: an active gesture returns to Idle only through pointer-up: a
\* pointer-move leaves the drag state as it is, a pointer-up received while
\* Dragging or Resizing leaves it Idle in the same step, and as long as no
\* pointer-up is handled the gesture stays active.
C26_IdleOnlyByPointerUp ==
    [][ /\ (style' # style /\ pc' = "edit") => dragState' = dragState
        /\ (GestureActive /\ pc' = "released") => dragState' = IdleDragState
        /\ (GestureActive /\ pc' # "released") =>
              (dragState'.isDragging \/ dragState'.isResizing) ]_vars

\* s1 is being resized, its element is wider than the model says, and no
\* pointer-up has been handled since
C26_Witness ==
    /\ dragState.isResizing /\ ~dragState.isDragging
    /\ dragState.dragTarget = Some("s1")
    /\ pc = "edit"
    /\ findStageById(data, "s1") # None
    /\ style["s1"].width >
          getWidthFromDuration(Get(findStageById(data, "s1")).duration, CellWidthOf(data))

\* the element of the pressed stage stands where render puts the stage
AtRenderedPosition ==
    LET e == Get(dragState.dragTarget)
    IN  style[e].left = renderStage(Get(findStageById(data, e)), data).left

\* C27: a drag with no net movement (pointer-down on a stage, pointer-up with
\* the element at its rendered position) leaves the start of every stage as
\* it was, also for a stage that starts on a non-working day or before the
\* first working day of the timeline.
C27_NoMoveNoChange ==
    [][ (PureDragRelease("stage") /\ AtRenderedPosition) =>
          \A st \in AllStages(data') :
              \E old \in AllStages(data) : old.id = st.id /\ old.start = st.start ]_vars

(***************************************************************************)
(* Claims about the codec                                                  *)
(***************************************************************************)
\* What decode(encode(m)) is claimed to be: m with each type replaced by the
\* name and the optional fields at their defaults.
NormStage(stage) == [stage EXCEPT !.type = stage.name]
NormMilestone(milestone) == [milestone EXCEPT !.type = milestone.name]
NormProject(project) ==
    [project EXCEPT !.stages = SeqMap(NormStage, project.stages),
                    !.milestones = SeqMap(NormMilestone, project.milestones),
                    !.layout = Some(OrElse(project.layout, "inline"))]
Normalized(d) ==
    [d EXCEPT !.projects = SeqMap(NormProject, d.projects),
              !.showTodayLine = Some(OrElse(d.showTodayLine, TRUE))]

\* C1: decode(encode(m)) equals m field for field (timeScale and weekStartsOn
\* included), up to type := name and the reinstated defaults.
C1_RoundTrip == pc = "decoded" => decoded = Normalized(data)

IsModel(d) ==
    /\ DOMAIN d = {"projects", "sprints", "startDate", "endDate", "excludeWeekdays",
                   "includeDates", "excludeDates", "showTodayLine", "timeScale",
                   "weekStartsOn"}
    /\ Len(d.projects) >= 0
    /\ Len(d.sprints) >= 0

\* C3: decode returns a model for every input string, and the fresh default
\* model (no projects, no sprints, weekends excluded, today's window) for the
\* empty string and for every malformed or unparseable input.
C3_DecodeTotal ==
    /\ pc \in {"decoded", "legacyDecoded", "foreignDecoded"} => IsModel(decoded)
    /\ pc = "foreignDecoded" =>
          /\ decoded.projects = <<>>
          /\ decoded.sprints = <<>>
          /\ decoded.excludeWeekdays = {0, 6}
          /\ decoded.includeDates = {} /\ decoded.excludeDates = {}
          /\ decoded.startDate = Today /\ decoded.endDate = DefaultEndDate
          /\ decoded.showTodayLine = Some(TRUE)

C3_Witness ==
    /\ pc = "foreignDecoded"
    /\ encoded.k = "b64"
    /\ encoded.b.k = "utf8"
    /\ encoded.b.b.b.projects # None
    /\ encoded.b.b.b.sprints = None
    /\ encoded.b.b.b.startDate = Some(formatDateISO(0))
    /\ encoded.b.b.b.endDate # None
    /\ decoded.projects = <<>>
    /\ decoded.endDate = DefaultEndDate

RENDERER_TYPE == "project-gantt"
BLOCK_NOT_FOUND == "Block not found"

UndefinedContent == [k |-> "undefined", b |-> [blank |-> FALSE]]
MacroText(keyword, type, payload) ==
    [k |-> "macro", b |-> [keyword |-> keyword, type |-> type, payload |-> payload]]

\* String.prototype.trim on a payload
trim(s) == IF s.k = "empty" THEN EmptyText ELSE s

\* the /i flag: 'renderer' is matched in any case
LowerCase(word) == IF word = "Renderer" THEN "renderer" ELSE word

\* content.match(/\{\{renderer\s+([^,\s]+)\s*,\s*([^}]+)\}\}/i): the two
\* groups, or nothing.  After ', ' an empty payload leaves the blank to
\* the second group.
macroMatch(content) ==
    IF content.k = "macro" /\ LowerCase(content.b.keyword) = "renderer"
    THEN Some([type |-> content.b.type,
               encoded |-> IF content.b.payload.k = "empty" THEN BlankText
                           ELSE content.b.payload])
    ELSE None

\* logseq.Editor.getBlock(uuid): the block, or null
getBlock(bs, uuid) == IF uuid \in DOMAIN bs THEN Some([content |-> bs[uuid]]) ELSE None

\* logseq.Editor.updateBlock(uuid, content)
updateBlock(bs, uuid, content) ==
    IF uuid \in DOMAIN bs THEN [bs EXCEPT ![uuid] = content] ELSE bs

\* the content save writes
saveContent(d) == MacroText("renderer", RENDERER_TYPE, encodeGanttData(d))

\* load, from the content of a block that was found, without the type test
loadContentAnyType(content) ==
    LET text == IF content.k = "undefined" THEN EmptyText ELSE content
        match == macroMatch(text)
    IN  IF match = None THEN createDefaultGanttData
        ELSE LET d == decodeGanttData(trim(Get(match).encoded))
             IN  IF ~validateGanttData(d) THEN createDefaultGanttData
                 ELSE sanitizeGanttData(d)

\* load, from the content of a block that was found
loadContent(content) ==
    LET text == IF content.k = "undefined" THEN EmptyText ELSE content
        match == macroMatch(text)
    IN  IF match = None THEN createDefaultGanttData
        ELSE IF Get(match).type # RENDERER_TYPE THEN createDefaultGanttData
        ELSE LET d == decodeGanttData(trim(Get(match).encoded))
             IN  IF ~validateGanttData(d) THEN createDefaultGanttData
                 ELSE sanitizeGanttData(d)

MaxStages == 2
StorageStart == 2
StorageEnd == 9

StorageStage(id, start) ==
    [id |-> id, name |-> "Stage", type |-> "Stage", start |-> start, duration |-> 3,
     assignee |-> None, color |-> "FF6B6B"]

\* stages before the timeline, on its first and last day, and after it
StorageStages ==
    { StorageStage("s0", StorageStart - 2), StorageStage("s1", StorageStart),
      StorageStage("s2", StorageEnd), StorageStage("s3", StorageEnd + 3) }

RECURSIVE ListsOf(_, _)
ListsOf(S, n) ==
    IF n = 0 THEN {<<>>}
    ELSE LET shorter == ListsOf(S, n - 1)
         IN  shorter \cup { Append(l, x) : l \in { q \in shorter : Len(q) = n - 1 },
                                           x \in S }

StorageStageLists ==
    { l \in ListsOf(StorageStages, MaxStages) :
        \A i, j \in DOMAIN l : i # j => l[i] # l[j] }

StorageMilestone(date) ==
    [id |-> "m1", name |-> "Release", type |-> "Release", date |-> date,
     assignee |-> None, color |-> None]

StorageMilestoneLists ==
    { <<>>, <<StorageMilestone(StorageEnd)>>, <<StorageMilestone(StorageEnd + 1)>> }

StorageSprint(id, start, end) == [id |-> id, name |-> "Sprint", start |-> start, end |-> end]

\* a sprint inside the timeline, one that starts before it, one that ends
\* after it
StorageSprintLists ==
    { <<>>,
      << StorageSprint("sp1", StorageStart - 1, StorageStart + 3),
         StorageSprint("sp2", StorageStart, StorageEnd) >>,
      << StorageSprint("sp2", StorageStart, StorageEnd),
         StorageSprint("sp3", StorageStart + 3, StorageEnd + 1) >> }

StorageModels ==
    { [projects |-> << [id |-> "p1", name |-> "Project", assignee |-> None,
                        stages |-> ss, milestones |-> ms, layout |-> Some("inline")] >>,
       sprints |-> sp,
       startDate |-> StorageStart, endDate |-> StorageEnd,
       excludeWeekdays |-> DEFAULT_EXCLUDE_WEEKDAYS,
       includeDates |-> {}, excludeDates |-> {formatDateISO(StorageStart + 1)},
       showTodayLine |-> Some(TRUE),
       timeScale |-> ts, weekStartsOn |-> None] :
        ss \in StorageStageLists, ms \in StorageMilestoneLists,
        sp \in StorageSprintLists, ts \in {None, Some("week")} }

\* the model whose payload the block holds at the start: one stage in
\* range, one after the end
StoredModel ==
    CHOOSE d \in StorageModels :
        /\ d.projects[1].stages = <<StorageStage("s1", StorageStart),
                                    StorageStage("s3", StorageEnd + 3)>>
        /\ d.projects[1].milestones = <<>>
        /\ d.sprints = <<>>
        /\ d.timeScale = None

BlockIds == {"b1", "b2"}

\* what the block b1 can hold before the plugin touches it
InitialContents ==
    { UndefinedContent, EmptyText, RawText("s", TRUE),
      MacroText("query", RENDERER_TYPE, encodeGanttData(StoredModel)),
      MacroText("renderer", "other", encodeGanttData(StoredModel)),
      MacroText("renderer", "Project-Gantt", encodeGanttData(StoredModel)),
      MacroText("Renderer", RENDERER_TYPE, encodeGanttData(StoredModel)),
      saveContent(StoredModel) }
    \cup { MacroText("renderer", RENDERER_TYPE, payload) :
             payload \in { EmptyText, RawText("i", TRUE), B64Text(RawText("x", TRUE)),
                           B64Text(Utf8Text(JsonText(EmptyDocument))) } }

\* b1 is a block of the graph, b2 is not
StorageInit ==
    /\ data \in StorageModels
    /\ encoded = EmptyText
    /\ decoded = createDefaultGanttData
    /\ pc = "storage"
    /\ cal = NoCal
    /\ res = NoRes
    /\ dragState = IdleDragState
    /\ style = NoStyle
    /\ \E content \in InitialContents : blocks = [id \in {"b1"} |-> content]
    /\ outcome = NoOutcome
    /\ saves = NoSaves
    /\ listeners = NoListeners
    /\ slot = NoSlot

Thrown(op, uuid) == [op |-> op, id |-> uuid, error |-> Some(BLOCK_NOT_FOUND), updateBlock |-> FALSE]
Settled(op, uuid, wrote) == [op |-> op, id |-> uuid, error |-> None, updateBlock |-> wrote]

\* save that writes before it looks for the block
saveUnchecked ==
    /\ pc = "storage"
    /\ \E uuid \in BlockIds :
          /\ blocks' = updateBlock(blocks, uuid, saveContent(data))
          /\ outcome' = IF getBlock(blocks, uuid) = None
                        THEN [Thrown("save", uuid) EXCEPT !.updateBlock = TRUE]
                        ELSE Settled("save", uuid, TRUE)
    /\ UNCHANGED <<data, encoded, decoded, pc, cal, res, dragState, style, saves, listeners, slot>>

\* GanttDataManager.save(uuid, data)
save ==
    /\ pc = "storage"
    /\ \E uuid \in BlockIds :
          IF getBlock(blocks, uuid) = None
          THEN /\ outcome' = Thrown("save", uuid)
               /\ UNCHANGED blocks
          ELSE /\ blocks' = updateBlock(blocks, uuid, saveContent(data))
               /\ outcome' = Settled("save", uuid, TRUE)
    /\ UNCHANGED <<data, encoded, decoded, pc, cal, res, dragState, style, saves, listeners, slot>>

\* GanttDataManager.load(uuid); decoded is the model it returns
load ==
    /\ pc = "storage"
    /\ \E uuid \in BlockIds :
          IF getBlock(blocks, uuid) = None
          THEN /\ outcome' = Thrown("load", uuid)
               /\ UNCHANGED decoded
          ELSE /\ decoded' = loadContent(Get(getBlock(blocks, uuid)).content)
               /\ outcome' = Settled("load", uuid, FALSE)
    /\ UNCHANGED <<data, encoded, pc, cal, res, dragState, style, blocks, saves, listeners, slot>>

\* GanttDataManager.delete(uuid)
delete ==
    /\ pc = "storage"
    /\ \E uuid \in BlockIds :
          IF getBlock(blocks, uuid) = None
          THEN /\ outcome' = Thrown("delete", uuid)
               /\ UNCHANGED blocks
          ELSE /\ blocks' = updateBlock(blocks, uuid, EmptyText)
               /\ outcome' = Settled("delete", uuid, TRUE)
    /\ UNCHANGED <<data, encoded, decoded, pc, cal, res, dragState, style, saves, listeners, slot>>

\* GanttManager.setData(data); decoded is the model the manager then holds
setData ==
    /\ pc = "storage"
    /\ decoded' = sanitizeGanttData(data)
    /\ outcome' = Settled("setData", "", FALSE)
    /\ UNCHANGED <<data, encoded, pc, cal, res, dragState, style, blocks, saves, listeners, slot>>

StorageNext == save \/ load \/ delete \/ setData

SpecStorage == StorageInit /\ [][StorageNext]_vars

(***************************************************************************)
(* Claims about sanitize and the block storage                             *)
(***************************************************************************)

\* C14: sanitize is idempotent: sanitize(sanitize(m)) = sanitize(m), for the
\* model handed to setData and for every model load returns.
C14_SanitizeIdempotent ==
    /\ outcome.op = "setData" => sanitizeGanttData(sanitizeGanttData(data)) = decoded
    /\ (outcome.op = "load" /\ outcome.error = None) => sanitizeGanttData(decoded) = decoded

\* setData was given a model with two stages out of range and removed both
C14_Witness ==
    /\ outcome.op = "setData"
    /\ Len(data.projects[1].stages) = 2
    /\ \A i \in {1, 2} : \/ data.projects[1].stages[i].start < data.startDate
                         \/ data.projects[1].stages[i].start > data.endDate
    /\ decoded.projects[1].stages = <<>>

\* out holds, in the order of in, exactly the elements of in that Keep holds for
KeptInOrder(out, in, Keep(_)) ==
    LET K == { i \in DOMAIN in : Keep(in[i]) }
        nth(k) == CHOOSE i \in K : Cardinality({ j \in K : j <= i }) = k
    IN  /\ Len(out) = Cardinality(K)
        /\ \A k \in 1..Len(out) : out[k] = in[nth(k)]

\* C15: sanitize(m) keeps, in their order, exactly the stages with
\* startDate <= start <= endDate, the milestones with startDate <= date <=
\* endDate and the sprints with startDate <= start and end <= endDate, and
\* leaves every other field of m as it is.
C15_SanitizeFilter ==
    outcome.op = "setData" =>
        /\ Len(decoded.projects) = Len(data.projects)
        /\ \A p \in DOMAIN data.projects :
              /\ KeptInOrder(decoded.projects[p].stages, data.projects[p].stages,
                             LAMBDA x : data.startDate <= x.start /\ x.start <= data.endDate)
              /\ KeptInOrder(decoded.projects[p].milestones, data.projects[p].milestones,
                             LAMBDA x : data.startDate <= x.date /\ x.date <= data.endDate)
              /\ [decoded.projects[p] EXCEPT !.stages = <<>>, !.milestones = <<>>]
                   = [data.projects[p] EXCEPT !.stages = <<>>, !.milestones = <<>>]
        /\ KeptInOrder(decoded.sprints, data.sprints,
                       LAMBDA x : data.startDate <= x.start /\ x.end <= data.endDate)
        /\ [decoded EXCEPT !.projects = <<>>, !.sprints = <<>>]
             = [data EXCEPT !.projects = <<>>, !.sprints = <<>>]

\* setData was given a stage after the end followed by one on the last day,
\* a milestone after the end and a sprint that starts before the timeline
C15_Witness ==
    /\ outcome.op = "setData"
    /\ data.projects[1].stages = <<StorageStage("s3", StorageEnd + 3),
                                   StorageStage("s2", StorageEnd)>>
    /\ decoded.projects[1].stages = <<StorageStage("s2", StorageEnd)>>
    /\ Len(data.projects[1].milestones) = 1 /\ decoded.projects[1].milestones = <<>>
    /\ Len(data.sprints) = 2
    /\ decoded.sprints = <<StorageSprint("sp2", StorageStart, StorageEnd)>>
    /\ data.sprints[2] = decoded.sprints[1]
    /\ data.timeScale = Some("week") /\ decoded.timeScale = Some("week")

NoSuchBlock(uuid) == uuid \in BlockIds /\ uuid \notin DOMAIN blocks

\* C18: save, load and delete on a block id for which getBlock returns
\* nothing each fail with 'Block not found'; updateBlock is not called and
\* the blocks are left as they were.
C18_BlockNotFound ==
    [][ (outcome'.op \in {"save", "load", "delete"} /\ NoSuchBlock(outcome'.id))
        => /\ outcome'.error = Some("Block not found")
           /\ ~outcome'.updateBlock
           /\ blocks' = blocks
           /\ decoded' = decoded ]_vars

\* save on b2 was rejected while b1 still holds what was saved for it before
C18_Witness ==
    /\ outcome = [op |-> "save", id |-> "b2", error |-> Some("Block not found"),
                  updateBlock |-> FALSE]
    /\ NoSuchBlock("b2")
    /\ blocks["b1"] = saveContent(data)
    /\ data # StoredModel

\* a content load cannot take a model from: no content, no renderer macro,
\* a macro of another type, or a payload that does not decode
Unreadable(content) ==
    \/ content.k \in {"undefined", "empty", "raw"}
    \/ /\ content.k = "macro"
       /\ \/ content.b.keyword \notin {"renderer", "Renderer"}
          \/ content.b.type # "project-gantt"
          \/ content.b.payload \in ForeignStrings

\* C19: load on an existing block returns the default model, without
\* raising, when the content is empty, has no renderer macro, has a macro
\* of another type than 'project-gantt', or has a payload that cannot be
\* decoded.
C19_LoadFallsBack ==
    (/\ outcome.op = "load"
     /\ outcome.id \in DOMAIN blocks
     /\ Unreadable(blocks[outcome.id]))
    => (outcome.error = None /\ decoded = createDefaultGanttData)

\* a macro of another renderer with a payload that would decode to a model
\* with a stage was loaded
C19_Witness ==
    /\ outcome = [op |-> "load", id |-> "b1", error |-> None, updateBlock |-> FALSE]
    /\ blocks["b1"] = MacroText("renderer", "other", encodeGanttData(StoredModel))
    /\ decodeGanttData(encodeGanttData(StoredModel)).projects # <<>>
    /\ decoded = createDefaultGanttData

\* a save that succeeded leaves '{{renderer project-gantt, <encode(m)>}}'
SaveWritesMacro ==
    (outcome'.op = "save" /\ outcome'.error = None)
    => blocks'[outcome'.id] = MacroText("renderer", "project-gantt", encodeGanttData(data))

SavedThenLoaded ==
    /\ outcome.op = "save" /\ outcome.error = None
    /\ outcome'.op = "load" /\ outcome'.id = outcome.id

\* the load that follows it returns sanitize(decode(encode(m)))
LoadReturnsSaved ==
    SavedThenLoaded
    => (/\ outcome'.error = None
        /\ decoded' = sanitizeGanttData(decodeGanttData(encodeGanttData(data))))

AllInRange(d) ==
    /\ \A p \in DOMAIN d.projects :
          /\ \A i \in DOMAIN d.projects[p].stages :
                d.startDate <= d.projects[p].stages[i].start
                /\ d.projects[p].stages[i].start <= d.endDate
          /\ \A i \in DOMAIN d.projects[p].milestones :
                d.startDate <= d.projects[p].milestones[i].date
                /\ d.projects[p].milestones[i].date <= d.endDate
    /\ \A i \in DOMAIN d.sprints :
          d.startDate <= d.sprints[i].start /\ d.sprints[i].end <= d.endDate

\* C20: after save(id, m) succeeds the block content is exactly
\* '{{renderer project-gantt, ' + encode(m) + '}}', the load(id) that
\* follows returns sanitize(decode(encode(m))), and for a model whose
\* entities are all in range that is m up to the codec normalizations
\* (type := name, omitted defaults reinstated).
C20_SaveThenLoad ==
    [][ /\ SaveWritesMacro
        /\ LoadReturnsSaved
        /\ (SavedThenLoaded /\ AllInRange(data)) => decoded' = Normalized(data) ]_vars

\* what of C20 does not depend on the fields the codec leaves out
StorageRoundTrip == [][ SaveWritesMacro /\ LoadReturnsSaved ]_vars

(***************************************************************************)
(* The render slot: one block, the plugin's slot maps, the slot's          *)
(* VisualEditor, the modal editor and the saves in flight.                 *)
(*   data    - VisualEditor.data, the object a gesture mutates             *)
(*   decoded - slotDataMap.get(slot), the object the modal is opened with  *)
(*   encoded - the payload the last save call encoded                      *)
(*   pc      - the handler that ran last                                   *)
(***************************************************************************)

\* the save calls, from gestures and the modal, a behaviour may start
MaxWrites == 3

SlotBlock == "b1"
SlotStarts == {2, 3, 4}
SlotNames == {"Project", "Renamed"}

SlotModels ==
    { [projects |-> << [id |-> "p1", name |-> "Project", assignee |-> None,
                        stages |-> <<StorageStage("s1", start)>>, milestones |-> <<>>,
                        layout |-> Some("inline")] >>,
       sprints |-> <<>>,
       startDate |-> StorageStart, endDate |-> StorageEnd,
       excludeWeekdays |-> DEFAULT_EXCLUDE_WEEKDAYS,
       includeDates |-> {}, excludeDates |-> {},
       showTodayLine |-> Some(TRUE),
       timeScale |-> None, weekStartsOn |-> None] : start \in {2, 3} }

ProjectName(d) == d.projects[1].name

\* the assignment  project.name = ..  the modal's form makes
WithProjectName(d, name) == [d EXCEPT !.projects[1].name = name]

\* Function.prototype.bind: a function object no earlier call returned
bind(method, binds) == [method |-> method, bound |-> binds + 1]

addEventListener(ls, target, type, fn) ==
    ls \cup {[target |-> target, type |-> type, fn |-> fn]}

\* removeEventListener: only the very function object that was added matches
removeEventListener(ls, target, type, fn) ==
    ls \ {[target |-> target, type |-> type, fn |-> fn]}

\* VisualEditor.setupEventListeners(container)
setupEventListeners(ls, binds) ==
    LET l1 == addEventListener(ls, "container", "mousedown", bind("handleMouseDown", binds))
        l2 == addEventListener(l1, "document", "mousemove", bind("handleMouseMove", binds + 1))
    IN  addEventListener(l2, "document", "mouseup", bind("handleMouseUp", binds + 2))

\* VisualEditor.cleanup(), as far as the listeners go
cleanupListeners(ls, binds) ==
    LET l1 == removeEventListener(ls, "container", "mousedown", bind("handleMouseDown", binds))
        l2 == removeEventListener(l1, "document", "mousemove", bind("handleMouseMove", binds + 1))
    IN  removeEventListener(l2, "document", "mouseup", bind("handleMouseUp", binds + 2))

\* a pointer-down on the container, a move and a pointer-up reach the editor
Listening(ls) ==
    /\ \E l \in ls : l.target = "container" /\ l.type = "mousedown"
                     /\ l.fn.method = "handleMouseDown"
    /\ \E l \in ls : l.target = "document" /\ l.type = "mousemove"
                     /\ l.fn.method = "handleMouseMove"
    /\ \E l \in ls : l.target = "document" /\ l.type = "mouseup"
                     /\ l.fn.method = "handleMouseUp"

\* the slot after its first render: the editor was built on the decoded
\* object, which is also the one in slotDataMap
SlotInit ==
    /\ data \in SlotModels
    /\ decoded = data
    /\ encoded = encodeGanttData(data)
    /\ pc = "rendered"
    /\ cal = NoCal
    /\ res = NoRes
    /\ dragState = IdleDragState
    /\ style = NoStyle
    /\ blocks = [id \in {SlotBlock} |-> saveContent(data)]
    /\ outcome = NoOutcome
    /\ saves = NoSaves
    /\ listeners = setupEventListeners(NoListeners, 0)
    /\ slot = [rendered |-> saveContent(data), sameObject |-> TRUE, binds |-> 3,
               writes |-> 0, cleaned |-> FALSE]

\* GanttDataManager.save up to its first await: the payload is encoded
\* when the call is made
StartSave(d) == Append(saves, [content |-> saveContent(d), phase |-> "getBlock"])

\* a gesture on stage s1 up to the end of handleMouseUp: the stage is moved
\* in the editor's model, saveData is called and not awaited
gestureEnd ==
    /\ Listening(listeners)
    /\ slot.writes < MaxWrites
    /\ \E start \in SlotStarts :
          LET moved == WithStage(data, "s1", start,
                                 Get(findStageById(data, "s1")).duration)
          IN  /\ data' = moved
              /\ decoded' = IF slot.sameObject THEN moved ELSE decoded
              /\ encoded' = encodeGanttData(moved)
              /\ saves' = StartSave(moved)
    /\ pc' = "released"
    /\ slot' = [slot EXCEPT !.writes = @ + 1]
    /\ UNCHANGED <<cal, res, dragState, style, blocks, outcome, listeners>>

\* the modal, opened on slotDataMap.get(slot): the project is renamed in
\* that object and EditorModal.handleSave calls save
modalSave ==
    /\ ~slot.cleaned
    /\ slot.writes < MaxWrites
    /\ \E name \in SlotNames \ {ProjectName(decoded)} :
          LET renamed == WithProjectName(decoded, name)
          IN  /\ decoded' = renamed
              /\ data' = IF slot.sameObject THEN renamed ELSE data
              /\ encoded' = encodeGanttData(renamed)
              /\ saves' = StartSave(renamed)
    /\ pc' = "modal"
    /\ slot' = [slot EXCEPT !.writes = @ + 1]
    /\ UNCHANGED <<cal, res, dragState, style, blocks, outcome, listeners>>

RemoveAt(q, i) == [j \in 1..(Len(q) - 1) |-> IF j < i THEN q[j] ELSE q[j + 1]]

\* save, resumed after  await logseq.Editor.getBlock(uuid)
saveGetBlock ==
    /\ \E i \in DOMAIN saves :
          /\ saves[i].phase = "getBlock"
          /\ IF getBlock(blocks, SlotBlock) = None
             THEN /\ saves' = RemoveAt(saves, i)
                  /\ outcome' = Thrown("save", SlotBlock)
             ELSE /\ saves' = [saves EXCEPT ![i].phase = "updateBlock"]
                  /\ UNCHANGED outcome
    /\ UNCHANGED <<data, encoded, decoded, pc, cal, res, dragState, style, blocks,
                   listeners, slot>>

\* the host carries out the updateBlock of a save, which then settles
saveUpdateBlock ==
    /\ \E i \in DOMAIN saves :
          /\ saves[i].phase = "updateBlock"
          /\ blocks' = updateBlock(blocks, SlotBlock, saves[i].content)
          /\ saves' = RemoveAt(saves, i)
    /\ outcome' = Settled("save", SlotBlock, TRUE)
    /\ UNCHANGED <<data, encoded, decoded, pc, cal, res, dragState, style, listeners, slot>>

\* the host renders the changed block again: the onMacroRendererSlotted
\* callback and the setupDragAndDrop it schedules.  The container is a new
\* element; the slot's editor is kept.
onMacroRendererSlotted ==
    /\ ~slot.cleaned
    /\ blocks[SlotBlock] # slot.rendered
    /\ blocks[SlotBlock].k = "macro"
    /\ blocks[SlotBlock].b.type = RENDERER_TYPE
    /\ decoded' = decodeGanttData(blocks[SlotBlock].b.payload)
    /\ listeners' = setupEventListeners({ l \in listeners : l.target # "container" },
                                        slot.binds)
    /\ slot' = [slot EXCEPT !.rendered = blocks[SlotBlock], !.sameObject = FALSE,
                            !.binds = @ + 3]
    /\ pc' = "rendered"
    /\ UNCHANGED <<data, encoded, cal, res, dragState, style, blocks, outcome, saves>>

\* ProjectGanttPlugin.cleanup(), with the VisualEditor.cleanup() it calls
cleanup ==
    /\ ~slot.cleaned
    /\ listeners' = cleanupListeners(listeners, slot.binds)
    /\ slot' = [slot EXCEPT !.binds = @ + 3, !.cleaned = TRUE]
    /\ pc' = "cleanup"
    /\ UNCHANGED <<data, encoded, decoded, cal, res, dragState, style, blocks, outcome,
                   saves>>

\* gestures and their saves alone
SaveNext == gestureEnd \/ saveGetBlock \/ saveUpdateBlock

SpecSave == SlotInit /\ [][SaveNext]_vars

SlotNext ==
    gestureEnd \/ modalSave \/ saveGetBlock \/ saveUpdateBlock
        \/ onMacroRendererSlotted \/ cleanup

SpecSlot == SlotInit /\ [][SlotNext]_vars

(***************************************************************************)
(* The claims about the render slot.                                       *)
(***************************************************************************)

\* C28: when gestures end one after the other, each starting a save that is
\* not awaited, then once every save has settled the block holds the
\* encoding of the model after the last gesture
C28_LastGestureWins ==
    (saves = <<>> /\ slot.writes >= 2) => blocks[SlotBlock] = saveContent(data)

\* the step is a gesture that ends
GestureEnds == pc' = "released" /\ slot'.writes = slot.writes + 1

\* every save has settled and the block was rendered as it now is
SlotQuiet == saves = <<>> /\ slot.rendered = blocks[SlotBlock]

\* C29: once the block was changed by another writer and rendered again, the
\* model a following gesture saves carries that change: it has the project
\* name of the model last decoded for the slot
C29_GestureSavesRenderedModel ==
    [][ (GestureEnds /\ SlotQuiet) => ProjectName(data') = ProjectName(decoded) ]_vars

\* C30: after cleanup no listener of the editor is left, and no pointer event
\* changes the editor's model or starts a save
C30_CleanupDetaches ==
    [][ slot.cleaned => /\ listeners = {}
                        /\ data' = data
                        /\ slot'.writes = slot.writes ]_vars

====
